---- MODULE Spec2Model ----
(***************************************************************************)
(* Card derivation and study-queue engine of the note application.         *)
(*                                                                         *)
(* App (src/App.tsx) owns the documents, derives the flashcards            *)
(* (extractCards), starts a study session (handleStartStudy) and applies   *)
(* ratings to the blocks' SRS records (handleUpdateCardProgress).          *)
(* StudySession (src/components/SettingsModal.tsx, from line 300) owns the *)
(* session queue, the position and the requeue timers (handleRate).        *)
(*                                                                         *)
(* Text is a sequence of one-character strings.  Queue positions are       *)
(* 0-based as in the source; TLA+ sequences are 1-based, see At.           *)
(***************************************************************************)
EXTENDS Integers, Sequences, FiniteSets, TLC

VARIABLES
    documents,        \* App: documents (sequence of Document)
    activeDocId,      \* App: activeDocId
    mode,             \* App: mode, "edit" or "study"
    studyModeType,    \* App: studyModeType
    originalQueue,    \* StudySession: originalQueue
    queue,            \* StudySession: queue
    currentIndex,     \* StudySession: currentIndex
    currentIndexRef,  \* StudySession: currentIndexRef.current
    isRevealed,       \* StudySession: isRevealed
    isEditing,        \* StudySession: isEditing
    isFlipped,        \* StudySession: isFlipped
    isPlaying,        \* StudySession: isPlaying
    swipeDirection,   \* StudySession: swipeDirection ("none" for null)
    missedCards,      \* StudySession: missedCards
    filterTerm,       \* StudySession: filterTerm
    queueIsOriginal,  \* StudySession: queue is the very array originalQueue
    requeueTimers,    \* pending setTimeout callbacks armed by handleRate
    nextTimers,       \* pending setTimeout callbacks armed by handleCardAction
    autoPlayTimer,    \* the pending timer of the auto-play effect ("none" if none)
    ratings,          \* number of ratings made so far (bounds the exploration)
    decisions,        \* number of swipe decisions made so far (bounds the exploration)
    staleFired,       \* number of timers that fired after their session was closed
    searchTerm,       \* CardTable: searchTerm
    activeTab,        \* CardTable: activeTab
    leechThreshold    \* App: settings.leechThreshold

vars == <<documents, activeDocId, mode, studyModeType, originalQueue, queue,
          currentIndex, currentIndexRef, isRevealed, isEditing, isFlipped,
          isPlaying, swipeDirection, missedCards, requeueTimers, nextTimers,
          autoPlayTimer, ratings, decisions, staleFired, searchTerm, activeTab,
          leechThreshold, filterTerm, queueIsOriginal>>

\* The card table's own state and the setting it reads.
tableVars == <<searchTerm, activeTab, leechThreshold>>

sessionVars == <<originalQueue, queue, currentIndex, currentIndexRef,
                 isRevealed, isEditing, isFlipped, isPlaying, swipeDirection,
                 missedCards, autoPlayTimer, filterTerm, queueIsOriginal>>

\* What no handler of the rating modes touches.
swipeVars == <<isFlipped, isPlaying, swipeDirection, missedCards, nextTimers,
               autoPlayTimer, decisions, filterTerm>>

\* What no handler of the swipe mode touches.
ratingVars == <<documents, activeDocId, mode, studyModeType, originalQueue,
                requeueTimers, ratings>>

----------------------------------------------------------------------------
(* Bounds of the exploration.                                              *)

\* ratings made in the one session of Spec
MaxRatings == 2
\* ratings made over all the sessions of SpecSessions
MaxSessionRatings == 1
\* swipe decisions made over all the sessions of SpecSessions
MaxSessionDecisions == 1
\* swipe decisions made in the one session of SpecSwipe
MaxDecisions == 2

----------------------------------------------------------------------------
(* Text helpers: String.prototype.includes / split / trim and the cloze    *)
(* regular expression, computed on sequences of characters.                *)

\* s.includes(d)
Includes(s, d) ==
    \E i \in 1..(Len(s) - Len(d) + 1) : SubSeq(s, i, i + Len(d) - 1) = d

\* index of the first occurrence of d in s (0 when there is none)
FirstIndex(s, d) ==
    IF Includes(s, d)
    THEN CHOOSE i \in 1..(Len(s) - Len(d) + 1) :
            /\ SubSeq(s, i, i + Len(d) - 1) = d
            /\ \A k \in 1..(i - 1) : SubSeq(s, k, k + Len(d) - 1) # d
    ELSE 0

\* s.split(d) for a non-empty delimiter d
Split_AtFirstOnly(s, d) ==
    IF ~Includes(s, d) THEN <<s>>
    ELSE <<SubSeq(s, 1, FirstIndex(s, d) - 1),
           SubSeq(s, FirstIndex(s, d) + Len(d), Len(s))>>

RECURSIVE Split(_, _)
Split(s, d) ==
    IF ~Includes(s, d) THEN <<s>>
    ELSE LET i == FirstIndex(s, d)
         IN <<SubSeq(s, 1, i - 1)>> \o Split(SubSeq(s, i + Len(d), Len(s)), d)

\* s.trim()
RECURSIVE Trim(_)
Trim(s) ==
    IF s = <<>> THEN s
    ELSE IF Head(s) = " " THEN Trim(Tail(s))
    ELSE IF s[Len(s)] = " " THEN Trim(SubSeq(s, 1, Len(s) - 1))
    ELSE s

\* /\{[^}]+\}/.test(s)
ClozeTest(s) ==
    \E i \in 1..Len(s) : \E j \in (i + 2)..Len(s) :
        /\ s[i] = "{"
        /\ s[j] = "}"
        /\ \A k \in (i + 1)..(j - 1) : s[k] # "}"

DoubleColon == <<":", ":">>
DoubleSemi == <<";", ";">>

----------------------------------------------------------------------------
(* Data model (src/unnamed/part_000).                                      *)

\* settings.leechThreshold when nothing was saved
DefaultLeechThreshold == 5

\* The fallback SRS record used wherever block.srsData is absent.  The
\* ease factor is kept in tenths (2.5 is 25).
DefaultEase == 25

DefaultSrs ==
    [nextReview |-> 0, interval |-> 0, easeFactor |-> DefaultEase,
     repetitions |-> 0, lapses |-> 0, disabled |-> FALSE, lastReview |-> "none"]

\* block.srsData is optional: <<>> when absent, <<record>> when present.
SrsOf(block) == IF block.srsData = <<>> THEN DefaultSrs ELSE block.srsData[1]

FailRatings == {"AGAIN", "TWO_SEC"}
StudyRatings == {"AGAIN", "HARD", "GOOD", "EASY"}
OrderRatings == {"TWO_SEC", "FIFTEEN_MIN", "THIRTY_MIN", "ONE_HOUR"}

\* 0-based read of a queue
At(q, i) == q[i + 1]

\* Array.prototype.splice(idx, 0, c) on a copy of q (idx is clamped to the length)
Splice(q, idx, c) ==
    LET k == IF idx > Len(q) THEN Len(q) ELSE idx
    IN SubSeq(q, 1, k) \o <<c>> \o SubSeq(q, k + 1, Len(q))

Range(s) == {s[i] : i \in 1..Len(s)}

----------------------------------------------------------------------------
(* Card derivation for study (App.extractCards).                           *)

BaseCard(doc, block) ==
    LET srs == SrsOf(block)
    IN [blockId |-> block.id, docId |-> doc.id,
        status |-> IF srs.repetitions = 0 THEN "new" ELSE "review",
        interval |-> srs.interval, easeFactor |-> srs.easeFactor,
        repetitions |-> srs.repetitions, lapses |-> srs.lapses,
        disabled |-> srs.disabled, nextReview |-> srs.nextReview]

\* The card id is block.id + suffix; it is kept as the pair.
MkCard(base, suffix, front, back, type) ==
    [id |-> <<base.blockId, suffix>>, front |-> front, back |-> back,
     cardType |-> type,
     blockId |-> base.blockId, docId |-> base.docId, status |-> base.status,
     interval |-> base.interval, easeFactor |-> base.easeFactor,
     repetitions |-> base.repetitions, lapses |-> base.lapses,
     disabled |-> base.disabled, nextReview |-> base.nextReview]

\* The srs.disabled early return of extractCards.
SkipsDisabled_NoCheck(srs) == FALSE

SkipsDisabled(srs) == srs.disabled

\* The cards one block contributes (0 or 1 in the study derivation).
BlockCards(doc, block) ==
    LET srs == SrsOf(block)
        base == BaseCard(doc, block)
        content == block.content
    IN IF SkipsDisabled(srs) THEN <<>>
       ELSE IF Includes(content, DoubleColon)
       THEN LET parts == Split(content, DoubleColon)
            IN IF Len(parts) >= 2
               THEN <<MkCard(base, "_fwd", Trim(parts[1]), Trim(parts[2]), "forward")>>
               ELSE <<>>
       ELSE IF Includes(content, DoubleSemi)
       THEN LET parts == Split(content, DoubleSemi)
            IN IF Len(parts) >= 2
               THEN <<MkCard(base, "_fwd", Trim(parts[1]), Trim(parts[2]), "forward")>>
               ELSE <<>>
       ELSE IF ClozeTest(content)
       THEN <<MkCard(base, "_cloze", content, content, "cloze")>>
       ELSE <<>>

RECURSIVE DocCards(_, _)
DocCards(doc, k) ==
    IF k > Len(doc.blocks) THEN <<>>
    ELSE BlockCards(doc, doc.blocks[k]) \o DocCards(doc, k + 1)

RECURSIVE extractCards(_)
extractCards(docsToScan) ==
    IF docsToScan = <<>> THEN <<>>
    ELSE DocCards(Head(docsToScan), 1) \o extractCards(Tail(docsToScan))

\* The Fisher-Yates loop of handleStartStudy: for i = n-1 down to 1, swap
\* cards[i] and cards[j] with j = js[i] in 0..i (the Math.random draws).
RECURSIVE FisherYates_Overwrite(_, _, _)
FisherYates_Overwrite(cards, js, i) ==
    IF i < 1 THEN cards
    ELSE FisherYates_Overwrite([cards EXCEPT ![i + 1] = At(cards, js[i])], js, i - 1)

RECURSIVE FisherYates(_, _, _)
FisherYates(cards, js, i) ==
    IF i < 1 THEN cards
    ELSE LET a == At(cards, i)
             b == At(cards, js[i])
             swapped == [cards EXCEPT ![i + 1] = b, ![js[i] + 1] = a]
         IN FisherYates(swapped, js, i - 1)

\* All draws the loop can make on n cards.
Draws(n) == {js \in [1..(n - 1) -> 0..(n - 1)] : \A i \in 1..(n - 1) : js[i] <= i}

----------------------------------------------------------------------------
(* The documents state explored: an outline with one block of each card    *)
(* syntax of initialDocs ('::', ';;', cloze) and a second document         *)
(* without cards.                                                          *)

InitialDocs ==
    << [id |-> "d1",
        blocks |-> << [id |-> "b1", content |-> <<"a", ":", ":", "b">>,
                       level |-> 0, srsData |-> <<>>],
                      [id |-> "b2", content |-> <<"c", " ", ";", ";", " ", "d">>,
                       level |-> 1, srsData |-> <<>>],
                      [id |-> "b3", content |-> <<"{", "e", "}">>,
                       level |-> 1, srsData |-> <<>>] >>],
       [id |-> "d2",
        blocks |-> << [id |-> "b4", content |-> <<"n">>,
                       level |-> 0, srsData |-> <<>>] >>] >>

DocIds == {"d1", "d2"}

\* App.activeDoc: documents.find(d => d.id === activeDocId) || documents[0]
ActiveDoc ==
    IF \E i \in 1..Len(documents) : documents[i].id = activeDocId
    THEN documents[CHOOSE i \in 1..Len(documents) :
                      /\ documents[i].id = activeDocId
                      /\ \A k \in 1..(i - 1) : documents[k].id # activeDocId]
    ELSE documents[1]

\* Values of the session state while no StudySession is mounted.
NoSession ==
    /\ originalQueue' = <<>>
    /\ queue' = <<>>
    /\ currentIndex' = 0
    /\ currentIndexRef' = 0
    /\ isRevealed' = FALSE
    /\ isEditing' = FALSE
    /\ isFlipped' = FALSE
    /\ isPlaying' = FALSE
    /\ swipeDirection' = "none"
    /\ missedCards' = <<>>
    /\ autoPlayTimer' = "none"
    /\ filterTerm' = <<>>
    /\ queueIsOriginal' = TRUE

\* The state of App and of the unmounted components before any input.
InitApp ==
    /\ activeDocId = "d1"
    /\ mode = "edit"
    /\ studyModeType = "spaced"
    /\ originalQueue = <<>>
    /\ queue = <<>>
    /\ currentIndex = 0
    /\ currentIndexRef = 0
    /\ isRevealed = FALSE
    /\ isEditing = FALSE
    /\ isFlipped = FALSE
    /\ isPlaying = FALSE
    /\ swipeDirection = "none"
    /\ missedCards = <<>>
    /\ requeueTimers = <<>>
    /\ nextTimers = <<>>
    /\ autoPlayTimer = "none"
    /\ ratings = 0
    /\ decisions = 0
    /\ staleFired = 0
    /\ searchTerm = <<>>
    /\ activeTab = "enabled"
    /\ leechThreshold = DefaultLeechThreshold
    /\ filterTerm = <<>>
    /\ queueIsOriginal = TRUE

Init ==
    /\ documents = InitialDocs
    /\ InitApp

----------------------------------------------------------------------------
(* App: editing-side handlers.                                             *)

\* Sidebar onSelectDoc: setActiveDocId(id); setMode('edit')
SelectDoc(d) ==
    /\ mode = "edit"
    /\ activeDocId' = d
    /\ UNCHANGED <<documents, mode, studyModeType, sessionVars, requeueTimers, nextTimers,
                   ratings, decisions, staleFired, tableVars>>

\* Editor.handleToggleDisable: the record is created from the defaults when
\* absent, and only the disabled flag is inverted.  Each field is written
\* as `field || default`, which replaces an ease factor of 0 by the default.
ToggledSrs_ResetCounters(block) ==
    [DefaultSrs EXCEPT !.disabled = ~SrsOf(block).disabled]

ToggledSrs(block) ==
    LET old == SrsOf(block)
    IN [old EXCEPT !.easeFactor = IF old.easeFactor = 0 THEN DefaultEase
                                  ELSE old.easeFactor,
                   !.disabled = ~old.disabled]

\* Editor.handleToggleDisable followed by App.handleUpdateBlocks
ToggleDisable(blockId) ==
    /\ mode = "edit"
    /\ \E i \in 1..Len(ActiveDoc.blocks) : ActiveDoc.blocks[i].id = blockId
    /\ LET newBlocks == [i \in 1..Len(ActiveDoc.blocks) |->
                            IF ActiveDoc.blocks[i].id = blockId
                            THEN [ActiveDoc.blocks[i] EXCEPT
                                     !.srsData = <<ToggledSrs(ActiveDoc.blocks[i])>>]
                            ELSE ActiveDoc.blocks[i]]
       IN documents' = [d \in 1..Len(documents) |->
                           IF documents[d].id = activeDocId
                           THEN [documents[d] EXCEPT !.blocks = newBlocks]
                           ELSE documents[d]]
    /\ UNCHANGED <<activeDocId, mode, studyModeType, sessionVars, requeueTimers, nextTimers,
                   ratings, decisions, staleFired, tableVars>>

----------------------------------------------------------------------------
(* CardTable (src/unnamed/part_002): the rows derived from the active      *)
(* document's blocks, the text and tab filters and the tab counts.         *)

\* The ancestors loop: i runs from index-1 down to 0 (0-based), a block with
\* a smaller level than currentLevel is put in front, and the loop stops at
\* level 0.
RECURSIVE AncestorsLoop(_, _, _, _)
AncestorsLoop(blocks, i, currentLevel, ancestors) ==
    IF i < 0 THEN ancestors
    ELSE IF At(blocks, i).level < currentLevel
    THEN IF At(blocks, i).level = 0
         THEN <<At(blocks, i).content>> \o ancestors
         ELSE AncestorsLoop(blocks, i - 1, At(blocks, i).level,
                            <<At(blocks, i).content>> \o ancestors)
    ELSE AncestorsLoop(blocks, i - 1, currentLevel, ancestors)

\* A loop that keeps the level of the block it started from
ancestorsOf_AllSmaller(blocks, index) ==
    LET Smaller(j) == At(blocks, j).level < At(blocks, index).level
        js == {j \in 0..(index - 1) : Smaller(j)}
        Nth(k) == CHOOSE j \in js : Cardinality({h \in js : h < j}) = k - 1
    IN [k \in 1..Cardinality(js) |-> At(blocks, Nth(k)).content]

ancestorsOf(blocks, index) ==
    AncestorsLoop(blocks, index - 1, At(blocks, index).level, <<>>)

MkRow(block, ancestors, suffix, front, back, type) ==
    [id |-> <<block.id, suffix>>, blockId |-> block.id, ancestors |-> ancestors,
     front |-> front, back |-> back, type |-> type,
     lapses |-> SrsOf(block).lapses, disabled |-> SrsOf(block).disabled,
     repetitions |-> SrsOf(block).repetitions]

\* The shown back of a cloze row
ClozeBack == <<".", ".", ".">>

\* The rows one block contributes (index is 0-based).
BlockRows(blocks, index) ==
    LET block == At(blocks, index)
        ancestors == ancestorsOf(blocks, index)
        content == block.content
    IN IF Includes(content, DoubleColon)
       THEN LET parts == Split(content, DoubleColon)
                front == Trim(parts[1])
                back == Trim(parts[2])
            IN IF front # <<>> /\ back # <<>>
               THEN << MkRow(block, ancestors, "-fwd", front, back, "bidirectional"),
                       MkRow(block, ancestors, "-bwd", back, front, "bidirectional") >>
               ELSE <<>>
       ELSE IF Includes(content, DoubleSemi)
       THEN LET parts == Split(content, DoubleSemi)
                front == Trim(parts[1])
                back == Trim(parts[2])
            IN IF front # <<>> /\ back # <<>>
               THEN << MkRow(block, ancestors, "-fwd", front, back, "forward") >>
               ELSE <<>>
       ELSE IF ClozeTest(content)
       THEN << MkRow(block, ancestors, "-cloze", content, ClozeBack, "cloze") >>
       ELSE <<>>

RECURSIVE TableRows(_, _)
TableRows(blocks, index) ==
    IF index >= Len(blocks) THEN <<>>
    ELSE BlockRows(blocks, index) \o TableRows(blocks, index + 1)

\* useMemo over the blocks of the document shown in the editor
tableData == TableRows(ActiveDoc.blocks, 0)

\* String.prototype.toLowerCase on the letters used here
LowerChar(ch) ==
    IF ch = "A" THEN "a" ELSE IF ch = "B" THEN "b" ELSE ch

toLowerCase(s) == [i \in 1..Len(s) |-> LowerChar(s[i])]

\* The text filter of getFilteredData
MatchesTerm_FrontOnly(row, term) ==
    Includes(toLowerCase(row.front), toLowerCase(term))

MatchesTerm(row, term) ==
    LET lower == toLowerCase(term)
    IN \/ Includes(toLowerCase(row.front), lower)
       \/ Includes(toLowerCase(row.back), lower)
       \/ \E a \in 1..Len(row.ancestors) :
             Includes(toLowerCase(row.ancestors[a]), lower)

TextFiltered(data, term) ==
    LET Keep(row) == MatchesTerm(row, term)
    IN IF term # <<>> THEN SelectSeq(data, Keep) ELSE data

Tabs == {"all", "leech", "struggling", "disabled", "enabled", "new"}

\* The tab predicates, as written in getFilteredData and in counts
InTab_StrugglingUpTo(r, tab, threshold) ==
    CASE tab = "leech" -> r.lapses >= threshold /\ ~r.disabled
      [] tab = "struggling" -> r.lapses > 0 /\ r.lapses <= threshold /\ ~r.disabled
      [] tab = "disabled" -> r.disabled
      [] tab = "new" -> r.repetitions = 0 /\ ~r.disabled
      [] tab = "enabled" -> ~r.disabled
      [] OTHER -> TRUE

InTab(r, tab, threshold) ==
    CASE tab = "leech" -> r.lapses >= threshold /\ ~r.disabled
      [] tab = "struggling" -> r.lapses > 0 /\ r.lapses < threshold /\ ~r.disabled
      [] tab = "disabled" -> r.disabled
      [] tab = "new" -> r.repetitions = 0 /\ ~r.disabled
      [] tab = "enabled" -> ~r.disabled
      [] OTHER -> TRUE

\* data.filter(<the predicate of tab>)
TabFiltered(data, tab) ==
    LET Keep(r) == InTab(r, tab, leechThreshold)
    IN SelectSeq(data, Keep)

getFilteredData == TabFiltered(TextFiltered(tableData, searchTerm), activeTab)

filteredData == getFilteredData

\* counts: the number shown on each tab
counts ==
    LET data == tableData
    IN [tab \in Tabs |-> Len(TabFiltered(data, tab))]

\* The search box: setSearchTerm(e.target.value)
SetSearchTerm(term) ==
    /\ mode = "edit"
    /\ searchTerm' = term
    /\ UNCHANGED <<documents, activeDocId, mode, studyModeType, sessionVars,
                   requeueTimers, nextTimers, ratings, decisions, staleFired,
                   activeTab, leechThreshold>>

\* TabButton: setActiveTab(id)
SetActiveTab(tab) ==
    /\ mode = "edit"
    /\ activeTab' = tab
    /\ UNCHANGED <<documents, activeDocId, mode, studyModeType, sessionVars,
                   requeueTimers, nextTimers, ratings, decisions, staleFired,
                   searchTerm, leechThreshold>>

\* SettingsModal: onUpdateSettings({...settings, leechThreshold: n})
UpdateLeechThreshold(n) ==
    /\ mode = "edit"
    /\ leechThreshold' = n
    /\ UNCHANGED <<documents, activeDocId, mode, studyModeType, sessionVars,
                   requeueTimers, nextTimers, ratings, decisions, staleFired,
                   searchTerm, activeTab>>

----------------------------------------------------------------------------
(* App.handleStartStudy and the mount of StudySession.                     *)

Modes == {"spaced", "all", "order", "flashcards"}

\* options.specificCardIds is optional: <<>> when absent, <<set>> when given.
DocsToStudy(m) ==
    IF m \in {"all", "flashcards"} THEN documents ELSE <<ActiveDoc>>

SelectedCards(m, ids) ==
    LET cards == extractCards(DocsToStudy(m))
        InIds(c) == c.id \in ids[1]
    IN IF ids # <<>> /\ ids[1] # {} THEN SelectSeq(cards, InIds) ELSE cards

handleStartStudy_MountsEmpty(m, ids, js) ==
    /\ mode = "edit"
    /\ studyModeType' = m
    /\ LET cards == SelectedCards(m, ids)
           started == IF m # "order" THEN FisherYates(cards, js, Len(cards) - 1)
                      ELSE cards
       IN /\ mode' = "study"
          /\ originalQueue' = started
          /\ queue' = started
          /\ currentIndex' = 0
          /\ currentIndexRef' = 0
          /\ isRevealed' = FALSE
          /\ isEditing' = FALSE
          /\ isFlipped' = FALSE
          /\ isPlaying' = FALSE
          /\ swipeDirection' = "none"
          /\ missedCards' = <<>>
          /\ autoPlayTimer' = "none"
          /\ filterTerm' = <<>>
          /\ queueIsOriginal' = TRUE
    /\ UNCHANGED <<documents, activeDocId, requeueTimers, nextTimers, ratings,
                   decisions, staleFired, tableVars>>

handleStartStudy(m, ids, js) ==
    /\ mode = "edit"
    /\ studyModeType' = m
    /\ LET cards == SelectedCards(m, ids)
           started == IF m # "order" THEN FisherYates(cards, js, Len(cards) - 1)
                      ELSE cards
       IN IF Len(cards) = 0
          THEN UNCHANGED <<mode, sessionVars>>
          ELSE /\ mode' = "study"
               /\ originalQueue' = started
               /\ queue' = started
               /\ currentIndex' = 0
               /\ currentIndexRef' = 0
               /\ isRevealed' = FALSE
               /\ isEditing' = FALSE
               /\ isFlipped' = FALSE
               /\ isPlaying' = FALSE
               /\ swipeDirection' = "none"
               /\ missedCards' = <<>>
               /\ autoPlayTimer' = "none"
               /\ filterTerm' = <<>>
               /\ queueIsOriginal' = TRUE
    /\ UNCHANGED <<documents, activeDocId, requeueTimers, nextTimers, ratings,
                   decisions, staleFired, tableVars>>

\* The ids a caller can pass: the study ids of the card blocks and one id in
\* the card table's format.
CandidateIds ==
    {<<"b1", "_fwd">>, <<"b2", "_fwd">>, <<"b3", "_cloze">>, <<"b1", "-fwd">>}

\* A session started from the editor's study menu or the sidebar (no ids).
\* The draws a start in mode m makes: none in mode 'order'.
DrawsOf(m, cards) == IF m = "order" THEN {<<>>} ELSE Draws(Len(cards))

StartStudy(modes) ==
    \E m \in modes :
        \E js \in DrawsOf(m, SelectedCards(m, <<>>)) :
            handleStartStudy(m, <<>>, js)

\* A session started with any mode and any choice of ids.
StartStudyWithIds ==
    \E m \in Modes : \E ids \in {<<>>} \cup {<<S>> : S \in SUBSET CandidateIds} :
        \E js \in Draws(Len(SelectedCards(m, ids))) :
            handleStartStudy(m, ids, js)

\* CardTable.handlePracticeFiltered: the ids of the rows shown are passed to
\* handleStartStudy in mode 'spaced'.
RowIds(rows) == {rows[i].id : i \in 1..Len(rows)}

handlePracticeFiltered ==
    \E js \in Draws(Len(SelectedCards("spaced", <<RowIds(filteredData)>>))) :
        handleStartStudy("spaced", <<RowIds(filteredData)>>, js)

----------------------------------------------------------------------------
(* StudySession: rating modes (spaced, all, order).                        *)

HasCurrentCard == mode = "study" /\ currentIndex < Len(queue)
currentCard == At(queue, currentIndex)

\* The end screen is rendered: !currentCard || currentIndex >= queue.length
SessionComplete == mode = "study" /\ currentIndex >= Len(queue)
SessionActive == mode = "study" /\ currentIndex < Len(queue)

RatingMode == mode = "study" /\ studyModeType # "flashcards"

\* App.handleUpdateCardProgress: the new SRS record of the rated block
RatedSrs_KeepReps(block, rating) ==
    LET currentSRS == SrsOf(block)
    IN IF rating \in FailRatings
       THEN [currentSRS EXCEPT !.lapses = currentSRS.lapses + 1, !.lastReview = "now"]
       ELSE [currentSRS EXCEPT !.repetitions = currentSRS.repetitions + 1,
                               !.lastReview = "now"]

RatedSrs_WithInterval(block, rating) ==
    LET currentSRS == SrsOf(block)
    IN IF rating \in FailRatings
       THEN [currentSRS EXCEPT !.lapses = currentSRS.lapses + 1,
                               !.repetitions = 0, !.interval = 0,
                               !.lastReview = "now"]
       ELSE [currentSRS EXCEPT !.repetitions = currentSRS.repetitions + 1,
                               !.interval = currentSRS.interval + 1,
                               !.lastReview = "now"]

RatedSrs(block, rating) ==
    LET currentSRS == SrsOf(block)
    IN IF rating \in FailRatings
       THEN [currentSRS EXCEPT !.lapses = currentSRS.lapses + 1,
                               !.repetitions = 0, !.lastReview = "now"]
       ELSE [currentSRS EXCEPT !.repetitions = currentSRS.repetitions + 1,
                               !.lastReview = "now"]

\* A record built from the statistics the queued card carries
handleUpdateCardProgress_FromSnapshot(prevDocs, card, rating) ==
    [d \in 1..Len(prevDocs) |->
        IF prevDocs[d].id # card.docId THEN prevDocs[d]
        ELSE [prevDocs[d] EXCEPT !.blocks =
                [b \in 1..Len(prevDocs[d].blocks) |->
                    IF prevDocs[d].blocks[b].id # card.blockId
                    THEN prevDocs[d].blocks[b]
                    ELSE [prevDocs[d].blocks[b] EXCEPT
                             !.srsData =
                                <<RatedSrs([prevDocs[d].blocks[b] EXCEPT
                                               !.srsData =
                                                  <<[SrsOf(prevDocs[d].blocks[b]) EXCEPT
                                                        !.lapses = card.lapses,
                                                        !.repetitions = card.repetitions]>>],
                                           rating)>>]]]]

handleUpdateCardProgress(prevDocs, card, rating) ==
    [d \in 1..Len(prevDocs) |->
        IF prevDocs[d].id # card.docId THEN prevDocs[d]
        ELSE [prevDocs[d] EXCEPT !.blocks =
                [b \in 1..Len(prevDocs[d].blocks) |->
                    IF prevDocs[d].blocks[b].id # card.blockId
                    THEN prevDocs[d].blocks[b]
                    ELSE [prevDocs[d].blocks[b] EXCEPT
                             !.srsData = <<RatedSrs(prevDocs[d].blocks[b], rating)>>]]]]

\* handleRate: whether the rating arms a requeue timer
ArmsRequeue_Always(rating) == TRUE

ArmsRequeue(rating) == rating \in FailRatings

RatingsOf(m) == IF m = "order" THEN OrderRatings ELSE StudyRatings

\* handleRate; the per-card reset effect runs because currentIndex changed.
handleRate(rating) ==
    /\ RatingMode
    /\ HasCurrentCard
    /\ isRevealed /\ ~isEditing
    /\ rating \in RatingsOf(studyModeType)
    /\ documents' = handleUpdateCardProgress(documents, currentCard, rating)
    /\ currentIndex' = currentIndex + 1
    /\ currentIndexRef' = currentIndex + 1
    /\ requeueTimers' =
          IF ArmsRequeue(rating)
          THEN Append(requeueTimers,
                      [card |-> currentCard, sched |-> currentIndex,
                       mounted |-> TRUE, preRestart |-> FALSE])
          ELSE requeueTimers
    /\ isRevealed' = FALSE
    /\ isEditing' = FALSE
    /\ ratings' = ratings + 1
    /\ UNCHANGED <<activeDocId, mode, studyModeType, originalQueue, queue>>
    /\ UNCHANGED <<swipeVars, staleFired, tableVars, queueIsOriginal>>

\* The position the timer callback reads: currentIndexRef.current
RequeuePosition_Captured(t) == t.sched

RequeuePosition(t) == currentIndexRef

\* insertIndex of the timer callback
InsertIndex_AtPosition(currentPos, len) == currentPos

InsertIndex(currentPos, len) == IF currentPos < len THEN currentPos + 1 ELSE currentPos

\* The setQueue updater of the timer callback
RequeueInsert_AtFront(currentQueue, currentPos, cardToRequeue) ==
    <<cardToRequeue>> \o currentQueue

RequeueInsert(currentQueue, currentPos, cardToRequeue) ==
    IF currentPos > Len(currentQueue) THEN Append(currentQueue, cardToRequeue)
    ELSE Splice(currentQueue, InsertIndex(currentPos, Len(currentQueue)), cardToRequeue)

RemoveAt(s, k) == SubSeq(s, 1, k - 1) \o SubSeq(s, k + 1, Len(s))

\* Timers of one session have the same delay and fire in the order they were
\* armed; a timer of an unmounted session may fire at any time.
CanFire(k) ==
    /\ k \in 1..Len(requeueTimers)
    /\ requeueTimers[k].mounted =>
          \A j \in 1..(k - 1) : ~requeueTimers[j].mounted

\* A state update on an unmounted component is dropped.
TimerIsLive_Always(t) == TRUE

TimerIsLive(t) == t.mounted

\* The requeue timer fires; the per-card reset effect runs because queue changed.
FireRequeue(k) ==
    /\ CanFire(k)
    /\ LET t == requeueTimers[k]
       IN IF TimerIsLive(t)
          THEN /\ queue' = RequeueInsert(queue, RequeuePosition(t), t.card)
               /\ queueIsOriginal' = FALSE
               /\ isRevealed' = FALSE
               /\ isEditing' = FALSE
          ELSE UNCHANGED <<queue, queueIsOriginal, isRevealed, isEditing>>
    /\ UNCHANGED swipeVars
    /\ UNCHANGED tableVars
    /\ staleFired' = IF requeueTimers[k].mounted THEN staleFired ELSE staleFired + 1
    /\ requeueTimers' = RemoveAt(requeueTimers, k)
    /\ UNCHANGED <<documents, activeDocId, mode, studyModeType, originalQueue,
                   currentIndex, currentIndexRef, ratings>>

\* handleReveal / Space / Enter
Reveal ==
    /\ RatingMode
    /\ HasCurrentCard
    /\ ~isRevealed /\ ~isEditing
    /\ isRevealed' = TRUE
    /\ UNCHANGED <<documents, activeDocId, mode, studyModeType, originalQueue, queue,
                   currentIndex, currentIndexRef, isEditing, requeueTimers, ratings>>
    /\ UNCHANGED <<swipeVars, staleFired, tableVars, queueIsOriginal>>

\* handlePrevCard (ArrowLeft, also on the end screen, or the menu entry); the
\* reveal it sets is undone by the per-card reset effect.
handlePrevCard ==
    /\ RatingMode
    /\ currentIndex > 0
    /\ currentIndex' = currentIndex - 1
    /\ currentIndexRef' = currentIndex - 1
    /\ isRevealed' = FALSE
    /\ isEditing' = FALSE
    /\ UNCHANGED <<documents, activeDocId, mode, studyModeType, originalQueue, queue,
                   requeueTimers, ratings>>
    /\ UNCHANGED <<swipeVars, staleFired, tableVars, queueIsOriginal>>

\* handleDisableCard (key B or the menu entry)
handleDisableCard_Unguarded ==
    /\ RatingMode
    /\ currentIndex' = currentIndex + 1
    /\ currentIndexRef' = currentIndex + 1
    /\ isRevealed' = FALSE
    /\ isEditing' = FALSE
    /\ UNCHANGED <<documents, activeDocId, mode, studyModeType, originalQueue, queue,
                   requeueTimers, ratings>>
    /\ UNCHANGED <<swipeVars, staleFired, tableVars, queueIsOriginal>>

handleDisableCard ==
    /\ RatingMode
    /\ currentIndex < Len(queue) - 1
    /\ currentIndex' = currentIndex + 1
    /\ currentIndexRef' = currentIndex + 1
    /\ isRevealed' = FALSE
    /\ isEditing' = FALSE
    /\ UNCHANGED <<documents, activeDocId, mode, studyModeType, originalQueue, queue,
                   requeueTimers, ratings>>
    /\ UNCHANGED <<swipeVars, staleFired, tableVars, queueIsOriginal>>

\* App.handleEditCard: the block's content is rebuilt from the edited sides.
EditedContent(block, card, newFront, newBack) ==
    IF card.cardType = "cloze" THEN newFront
    ELSE LET sep == IF Includes(block.content, DoubleColon) THEN DoubleColon
                    ELSE DoubleSemi
         IN newFront \o <<" ">> \o sep \o <<" ">> \o newBack

handleEditCard(docs, card, newFront, newBack) ==
    [d \in 1..Len(docs) |->
        IF docs[d].id # card.docId THEN docs[d]
        ELSE [docs[d] EXCEPT !.blocks =
                [b \in 1..Len(docs[d].blocks) |->
                    IF docs[d].blocks[b].id # card.blockId
                    THEN docs[d].blocks[b]
                    ELSE [docs[d].blocks[b] EXCEPT
                             !.content = EditedContent(docs[d].blocks[b], card,
                                                       newFront, newBack)]]]]

\* The pencil button: setIsEditing(true)
StartEdit ==
    /\ RatingMode
    /\ HasCurrentCard
    /\ ~isEditing
    /\ isEditing' = TRUE
    /\ UNCHANGED <<documents, activeDocId, mode, studyModeType, originalQueue, queue,
                   currentIndex, currentIndexRef, isRevealed, requeueTimers, ratings>>
    /\ UNCHANGED <<swipeVars, staleFired, tableVars, queueIsOriginal>>

\* The Cancel button: setIsEditing(false)
CancelEdit ==
    /\ RatingMode
    /\ HasCurrentCard
    /\ isEditing
    /\ isEditing' = FALSE
    /\ UNCHANGED <<documents, activeDocId, mode, studyModeType, originalQueue, queue,
                   currentIndex, currentIndexRef, isRevealed, requeueTimers, ratings>>
    /\ UNCHANGED <<swipeVars, staleFired, tableVars, queueIsOriginal>>

\* handleSaveEdit; the per-card reset effect runs because queue is replaced.
handleSaveEdit(editFront, editBack) ==
    /\ RatingMode
    /\ HasCurrentCard
    /\ isEditing
    /\ documents' = handleEditCard(documents, currentCard, editFront, editBack)
    /\ queue' = [queue EXCEPT ![currentIndex + 1] =
                    [currentCard EXCEPT !.front = editFront, !.back = editBack]]
    /\ isEditing' = FALSE
    /\ isRevealed' = FALSE
    /\ UNCHANGED <<activeDocId, mode, studyModeType, originalQueue,
                   currentIndex, currentIndexRef, requeueTimers, ratings>>
    /\ queueIsOriginal' = FALSE
    /\ UNCHANGED <<swipeVars, staleFired, tableVars>>

\* Texts typed into the edit fields.
EditFronts == {<<"z">>}
EditBacks == {<<"y">>}

SaveEdit == \E f \in EditFronts : \E b \in EditBacks : handleSaveEdit(f, b)

\* The "Restart Session" button of the end screen: setCurrentIndex(0)
RestartSession ==
    /\ RatingMode
    /\ SessionComplete
    /\ currentIndex' = 0
    /\ currentIndexRef' = 0
    /\ isRevealed' = FALSE
    /\ isEditing' = FALSE
    /\ requeueTimers' = [k \in 1..Len(requeueTimers) |->
                            IF requeueTimers[k].mounted
                            THEN [requeueTimers[k] EXCEPT !.preRestart = TRUE]
                            ELSE requeueTimers[k]]
    /\ UNCHANGED <<documents, activeDocId, mode, studyModeType, originalQueue, queue,
                   ratings>>
    /\ UNCHANGED <<swipeVars, staleFired, tableVars, queueIsOriginal>>

\* onClose (close buttons, Escape): App unmounts StudySession.
Unmount ==
    /\ mode' = "edit"
    /\ NoSession
    /\ requeueTimers' = [k \in 1..Len(requeueTimers) |->
                            [requeueTimers[k] EXCEPT !.mounted = FALSE]]
    /\ nextTimers' = [k \in 1..Len(nextTimers) |->
                         [nextTimers[k] EXCEPT !.mounted = FALSE]]

CloseSession ==
    /\ mode = "study"
    /\ Unmount
    /\ UNCHANGED <<documents, activeDocId, studyModeType, ratings, decisions, staleFired, tableVars>>

\* handleGoToRem (key G): App.handleNavigateToDoc
handleGoToRem ==
    /\ RatingMode
    /\ HasCurrentCard
    /\ ~isEditing
    /\ activeDocId' = currentCard.docId
    /\ Unmount
    /\ UNCHANGED <<documents, studyModeType, ratings, decisions, staleFired, tableVars>>

\* doc.title || "Untitled": documents carry no title here, the id stands for it.
TitleOf(doc) == <<doc.id>>

\* getContextPath (settings.showContext is on): the document title followed
\* by the trimmed contents of the ancestors of the current card's block.
getContextPath ==
    IF ~HasCurrentCard THEN <<>>
    ELSE LET doc == documents[CHOOSE d \in 1..Len(documents) :
                                 documents[d].id = currentCard.docId]
             blockIndex == (CHOOSE b \in 1..Len(doc.blocks) :
                               doc.blocks[b].id = currentCard.blockId) - 1
             parents == ancestorsOf(doc.blocks, blockIndex)
         IN <<TitleOf(doc)>> \o [k \in 1..Len(parents) |-> Trim(parents[k])]

----------------------------------------------------------------------------
(* StudySession: swipe mode (flashcards).                                  *)

SwipeMode == mode = "study" /\ studyModeType = "flashcards"

\* The auto-play effect: its cleanup clears the pending timer, then a timer
\* is armed for the flip (front shown) or for the decision (back shown).
AutoPlayArm_FrontOnly(playing, flipped, hasCard) ==
    IF playing /\ hasCard /\ ~flipped THEN "flip" ELSE "none"

AutoPlayArm(playing, flipped, hasCard) ==
    IF playing /\ hasCard THEN (IF flipped THEN "decide" ELSE "flip") ELSE "none"

\* The play/pause button: setIsPlaying(!isPlaying)
TogglePlay ==
    /\ SwipeMode
    /\ HasCurrentCard
    /\ isPlaying' = ~isPlaying
    /\ autoPlayTimer' = AutoPlayArm(~isPlaying, isFlipped, TRUE)
    /\ UNCHANGED <<ratingVars, filterTerm, queueIsOriginal, queue, currentIndex, currentIndexRef, isRevealed,
                   isEditing, isFlipped, swipeDirection, missedCards, nextTimers,
                   decisions, staleFired, tableVars>>

\* handleFlip called by a click on the card
FlipByClick ==
    /\ SwipeMode
    /\ HasCurrentCard
    /\ isRevealed' = ~isRevealed
    /\ isFlipped' = ~isFlipped
    /\ autoPlayTimer' = AutoPlayArm(isPlaying, ~isFlipped, TRUE)
    /\ UNCHANGED <<ratingVars, filterTerm, queueIsOriginal, queue, currentIndex, currentIndexRef, isEditing,
                   isPlaying, swipeDirection, missedCards, nextTimers, decisions,
                   staleFired, tableVars>>

\* Space or Enter: auto-play is paused, then handleFlip
FlipByKey_KeepsTimer ==
    /\ SwipeMode
    /\ ~isEditing
    /\ isPlaying' = FALSE
    /\ isRevealed' = ~isRevealed
    /\ isFlipped' = ~isFlipped
    /\ UNCHANGED autoPlayTimer
    /\ UNCHANGED <<ratingVars, filterTerm, queueIsOriginal, queue, currentIndex, currentIndexRef, isEditing,
                   swipeDirection, missedCards, nextTimers, decisions, staleFired, tableVars>>

FlipByKey ==
    /\ SwipeMode
    /\ ~isEditing
    /\ isPlaying' = FALSE
    /\ isRevealed' = ~isRevealed
    /\ isFlipped' = ~isFlipped
    /\ autoPlayTimer' = "none"
    /\ UNCHANGED <<ratingVars, filterTerm, queueIsOriginal, queue, currentIndex, currentIndexRef, isEditing,
                   swipeDirection, missedCards, nextTimers, decisions, staleFired, tableVars>>

\* handleCardAction: the swipe is shown, a bad card is recorded, and the move
\* to the next card is armed with the index of the render that armed it.
handleCardAction_RatesBlock(direction) ==
    /\ SwipeMode
    /\ HasCurrentCard
    /\ swipeDirection' = direction
    /\ missedCards' = IF direction = "left" THEN Append(missedCards, currentCard.id)
                      ELSE missedCards
    /\ nextTimers' = Append(nextTimers, [target |-> currentIndex + 1, mounted |-> TRUE])
    /\ decisions' = decisions + 1
    /\ documents' = IF direction = "left"
                    THEN handleUpdateCardProgress(documents, currentCard, "AGAIN")
                    ELSE documents
    /\ UNCHANGED <<activeDocId, mode, studyModeType, originalQueue, requeueTimers,
                   ratings, filterTerm, queueIsOriginal, queue, currentIndex,
                   currentIndexRef, isRevealed, isEditing, isFlipped, isPlaying,
                   staleFired, tableVars>>

handleCardAction(direction) ==
    /\ SwipeMode
    /\ HasCurrentCard
    /\ swipeDirection' = direction
    /\ missedCards' = IF direction = "left" THEN Append(missedCards, currentCard.id)
                      ELSE missedCards
    /\ nextTimers' = Append(nextTimers, [target |-> currentIndex + 1, mounted |-> TRUE])
    /\ decisions' = decisions + 1
    /\ UNCHANGED <<ratingVars, filterTerm, queueIsOriginal, queue, currentIndex, currentIndexRef, isRevealed,
                   isEditing, isFlipped, isPlaying, staleFired, tableVars>>

\* The Bad / Good buttons; the arrow keys do the same, and only while no
\* swipe is shown.
Decide(bound) ==
    /\ decisions < bound
    /\ \E direction \in {"left", "right"} :
          /\ handleCardAction(direction)
          /\ UNCHANGED autoPlayTimer

\* The auto-play timer fires: handleFlip on the front, handleCardAction('right')
\* on the back.
AutoPlayFire(bound) ==
    /\ SwipeMode
    /\ autoPlayTimer # "none"
    /\ IF autoPlayTimer = "flip"
       THEN /\ isRevealed' = ~isRevealed
            /\ isFlipped' = ~isFlipped
            /\ autoPlayTimer' = AutoPlayArm(isPlaying, ~isFlipped, HasCurrentCard)
            /\ UNCHANGED <<ratingVars, filterTerm, queueIsOriginal, queue, currentIndex, currentIndexRef,
                           isEditing, isPlaying, swipeDirection, missedCards,
                           nextTimers, decisions, staleFired, tableVars>>
       ELSE /\ decisions < bound
            /\ handleCardAction("right")
            /\ autoPlayTimer' = "none"

CanFireNext(k) ==
    /\ k \in 1..Len(nextTimers)
    /\ nextTimers[k].mounted => \A j \in 1..(k - 1) : ~nextTimers[j].mounted

\* The timer armed by handleCardAction fires: handleNextCard sets the index
\* it computed; the per-card reset effect and the auto-play effect run when
\* the index changed.
FireNext_KeepsFlip(k) ==
    /\ CanFireNext(k)
    /\ LET t == nextTimers[k]
       IN IF TimerIsLive(t) /\ t.target # currentIndex
          THEN /\ currentIndex' = t.target
               /\ currentIndexRef' = t.target
               /\ isRevealed' = FALSE
               /\ isEditing' = FALSE
               /\ swipeDirection' = "none"
               /\ autoPlayTimer' = AutoPlayArm(isPlaying, isFlipped, t.target < Len(queue))
               /\ UNCHANGED isFlipped
          ELSE UNCHANGED <<currentIndex, currentIndexRef, isRevealed, isEditing,
                           isFlipped, swipeDirection, autoPlayTimer>>
    /\ UNCHANGED tableVars
    /\ staleFired' = IF nextTimers[k].mounted THEN staleFired ELSE staleFired + 1
    /\ nextTimers' = RemoveAt(nextTimers, k)
    /\ UNCHANGED <<ratingVars, filterTerm, queueIsOriginal, queue, isPlaying, missedCards, decisions>>

FireNext(k) ==
    /\ CanFireNext(k)
    /\ LET t == nextTimers[k]
       IN IF TimerIsLive(t) /\ t.target # currentIndex
          THEN /\ currentIndex' = t.target
               /\ currentIndexRef' = t.target
               /\ isRevealed' = FALSE
               /\ isEditing' = FALSE
               /\ isFlipped' = FALSE
               /\ swipeDirection' = "none"
               /\ autoPlayTimer' = AutoPlayArm(isPlaying, FALSE, t.target < Len(queue))
          ELSE UNCHANGED <<currentIndex, currentIndexRef, isRevealed, isEditing,
                           isFlipped, swipeDirection, autoPlayTimer>>
    /\ UNCHANGED tableVars
    /\ staleFired' = IF nextTimers[k].mounted THEN staleFired ELSE staleFired + 1
    /\ nextTimers' = RemoveAt(nextTimers, k)
    /\ UNCHANGED <<ratingVars, filterTerm, queueIsOriginal, queue, isPlaying, missedCards, decisions>>

\* The screens of the flashcards render: the card with its toolbar, the
\* "no cards found" screen of an empty filtered queue, the end screen.
EmptySearchScreen == SwipeMode /\ Len(queue) = 0 /\ filterTerm # <<>>
EndScreen == SwipeMode /\ ~EmptySearchScreen /\ ~HasCurrentCard
CardScreen == SwipeMode /\ ~EmptySearchScreen /\ HasCurrentCard

\* What the effects do after a handler has set queue and currentIndex:
\* the per-card reset effect runs when the queue array or the index changed,
\* the auto-play effect when isFlipped or the current card changed.
\* setQueue with the array already held changes nothing.
DeckUpdate(newQueue, newIsOriginal, newIndex, flipCleared) ==
    LET sameArray == newIsOriginal /\ queueIsOriginal
        resetRuns == ~sameArray \/ newIndex # currentIndex
        flipped == IF resetRuns \/ flipCleared THEN FALSE ELSE isFlipped
        hasCard == newIndex < Len(newQueue)
        cardChanged == \/ hasCard # HasCurrentCard
                       \/ hasCard /\ At(newQueue, newIndex) # currentCard
    IN /\ queue' = newQueue
       /\ queueIsOriginal' = newIsOriginal
       /\ currentIndex' = newIndex
       /\ currentIndexRef' = newIndex
       /\ isFlipped' = flipped
       /\ isRevealed' = IF resetRuns \/ flipCleared THEN FALSE ELSE isRevealed
       /\ isEditing' = IF resetRuns THEN FALSE ELSE isEditing
       /\ swipeDirection' = IF resetRuns THEN "none" ELSE swipeDirection
       /\ autoPlayTimer' = IF cardChanged \/ flipped # isFlipped
                           THEN AutoPlayArm(isPlaying, flipped, hasCard)
                           ELSE autoPlayTimer

\* The filter effect's predicate: front or back contains the lower-cased term
MatchesFilter_FrontOnly(card, term) ==
    Includes(toLowerCase(card.front), toLowerCase(term))

MatchesFilter(card, term) ==
    \/ Includes(toLowerCase(card.front), toLowerCase(term))
    \/ Includes(toLowerCase(card.back), toLowerCase(term))

FilteredQueue(cards, term) ==
    LET Keeps(card) == MatchesFilter(card, term)
    IN SelectSeq(cards, Keeps)

\* setFilterTerm(value) from the search input or a clear button, and the
\* filter effect that runs because filterTerm changed.
SetFilterTerm(term) ==
    /\ CardScreen \/ EmptySearchScreen
    /\ term # filterTerm
    /\ filterTerm' = term
    /\ IF Trim(term) = <<>>
       THEN DeckUpdate(originalQueue, TRUE, currentIndex, FALSE)
       ELSE DeckUpdate(FilteredQueue(originalQueue, term), FALSE, 0, FALSE)
    /\ UNCHANGED <<ratingVars, isPlaying, missedCards, nextTimers, decisions,
                   staleFired, tableVars>>

\* handleShuffle: Fisher-Yates on a copy of queue with the draws js
handleShuffle_InPlace(js) ==
    /\ CardScreen
    /\ DeckUpdate(FisherYates(queue, js, Len(queue) - 1), queueIsOriginal, 0, FALSE)
    /\ originalQueue' = IF queueIsOriginal
                        THEN FisherYates(queue, js, Len(queue) - 1)
                        ELSE originalQueue
    /\ UNCHANGED <<documents, activeDocId, mode, studyModeType, requeueTimers,
                   ratings, filterTerm, isPlaying, missedCards, nextTimers,
                   decisions, staleFired, tableVars>>

handleShuffle(js) ==
    /\ CardScreen
    /\ DeckUpdate(FisherYates(queue, js, Len(queue) - 1), FALSE, 0, FALSE)
    /\ UNCHANGED <<ratingVars, filterTerm, isPlaying, missedCards, nextTimers,
                   decisions, staleFired, tableVars>>

Shuffle == \E js \in Draws(Len(queue)) : handleShuffle(js)

\* handleRestartMissed (end screen, shown while missedCards is not empty)
MissedOf_FromQueue(cards) ==
    LET Missed(c) == c.id \in Range(missedCards)
    IN SelectSeq(queue, Missed)

MissedOf(cards) ==
    LET Missed(c) == c.id \in Range(missedCards)
    IN SelectSeq(cards, Missed)

handleRestartMissed ==
    /\ EndScreen
    /\ missedCards # <<>>
    /\ DeckUpdate(MissedOf(originalQueue), FALSE, 0, TRUE)
    /\ missedCards' = <<>>
    /\ UNCHANGED <<ratingVars, filterTerm, isPlaying, nextTimers, decisions,
                   staleFired, tableVars>>

\* handleRestartAll (end screen)
handleRestartAll_KeepQueue ==
    /\ EndScreen
    /\ DeckUpdate(queue, queueIsOriginal, 0, TRUE)
    /\ missedCards' = <<>>
    /\ UNCHANGED <<ratingVars, filterTerm, isPlaying, nextTimers, decisions,
                   staleFired, tableVars>>

handleRestartAll ==
    /\ EndScreen
    /\ DeckUpdate(originalQueue, TRUE, 0, TRUE)
    /\ missedCards' = <<>>
    /\ UNCHANGED <<ratingVars, filterTerm, isPlaying, nextTimers, decisions,
                   staleFired, tableVars>>

\* Key B in the flashcards mode: the key handler returns early for the
\* arrow, Space and Enter keys only, so handleDisableCard runs; the per-card
\* reset effect and the auto-play effect run because the index changed.
DisableCardKey ==
    /\ SwipeMode
    /\ ~isEditing
    /\ currentIndex < Len(queue) - 1
    /\ DeckUpdate(queue, queueIsOriginal, currentIndex + 1, FALSE)
    /\ UNCHANGED <<ratingVars, filterTerm, isPlaying, missedCards, nextTimers,
                   decisions, staleFired, tableVars>>

Rate(bound) ==
    /\ ratings < bound
    /\ \E r \in StudyRatings \cup OrderRatings : handleRate(r)

\* The study-queue scheduler: one session in a rating mode, from its start.
Next ==
    \/ StartStudy({"spaced", "order"})
    \/ Rate(MaxRatings)
    \/ \E k \in 1..Len(requeueTimers) : FireRequeue(k)
    \/ Reveal
    \/ handlePrevCard
    \/ handleDisableCard
    \/ RestartSession

Spec == Init /\ [][Next]_vars

\* Sessions that are closed and started again while timers are pending.
NextSessions ==
    \/ StartStudy({"order", "flashcards"})
    \/ Rate(MaxSessionRatings)
    \/ \E k \in 1..Len(requeueTimers) : FireRequeue(k)
    \/ Reveal
    \/ handlePrevCard
    \/ handleDisableCard
    \/ RestartSession
    \/ TogglePlay
    \/ FlipByClick
    \/ FlipByKey
    \/ Decide(MaxSessionDecisions)
    \/ AutoPlayFire(MaxSessionDecisions)
    \/ \E k \in 1..Len(nextTimers) : FireNext(k)
    \/ CloseSession
    \/ handleGoToRem

SpecSessions == Init /\ [][NextSessions]_vars

\* Card derivation at session start: documents are edited between sessions.
NextDerive ==
    \/ \E d \in DocIds : SelectDoc(d)
    \/ \E b \in {"b1", "b2", "b3", "b4"} : ToggleDisable(b)
    \/ StartStudyWithIds
    \/ CloseSession

SpecDerive == Init /\ [][NextDerive]_vars

----------------------------------------------------------------------------
(* Card derivation on drawn block contents: one document whose first block *)
(* has any of the contents below and any of the SRS records below, and     *)
(* whose second block is a child with a forward card.                      *)

ExtractContents ==
    { <<"a", ":", ":", "b">>,
      <<" ", "a", " ", ":", ":", " ", "b", " ">>,
      <<":", ":", "b">>,
      <<"a", ":", ":">>,
      <<"a", ":", ":", " ">>,
      <<" ", ":", ":", "b">>,
      <<"a", ":", ":", "b", ":", ":", "c">>,
      <<"a", ":", ":", "b", "{", "c", "}">>,
      <<":", ":", "{", "c", "}">>,
      <<"a", ";", ";", "b", ":", ":", "c">>,
      <<"a", ";", ";", "b">>,
      <<"a", " ", ";", ";", " ", "b">>,
      <<";", ";", "b">>,
      <<"a", ";", ";">>,
      <<"a", ";", ";", "b", ";", ";", "c">>,
      <<";", ";", "{", "c", "}">>,
      <<"a", ";", ";", "b", "{", "c", "}">>,
      <<"{", "c", "}">>,
      <<"{", "}">>,
      <<"a", "{", "c", "}", "b">>,
      <<"a">>,
      <<>> }

RatedRecord == [DefaultSrs EXCEPT !.repetitions = 2, !.lapses = 1]

ExtractRecords ==
    { <<>>, <<RatedRecord>>, <<[RatedRecord EXCEPT !.disabled = TRUE]>> }

ExtractDocs ==
    { << [id |-> "d1",
          blocks |-> << [id |-> "b1", content |-> c, level |-> 0, srsData |-> r],
                        [id |-> "b2", content |-> <<"c", " ", ";", ";", " ", "d">>,
                         level |-> 1, srsData |-> <<>>] >>] >> :
        c \in ExtractContents, r \in ExtractRecords }

InitExtract ==
    /\ documents \in ExtractDocs
    /\ InitApp

NextExtract ==
    \/ StartStudy({"spaced", "order"})
    \/ handlePracticeFiltered
    \/ \E tab \in Tabs : SetActiveTab(tab)
    \/ ToggleDisable("b1")
    \/ CloseSession

SpecExtract == InitExtract /\ [][NextExtract]_vars

----------------------------------------------------------------------------
(* Ancestors on drawn outlines: one document with as many forward-card     *)
(* blocks as the example outline, with distinct texts and any levels in    *)
(* 0..MaxLevel.                                                            *)

MaxLevel == 2

ExampleLevels == <<0, 1, 1, 2, 0, 1>>

\* The text of the k-th block (1-based): a digit, with a space around it on
\* every other block.
BlockText(k) ==
    LET digit == <<"0", "1", "2", "3", "4", "5", "6", "7", "8", "9">>[k]
    IN IF k % 2 = 1 THEN <<" ", digit, " ", ";", ";", "x">>
       ELSE <<digit, ";", ";", "x">>

OutlineDocs ==
    { << [id |-> "d1",
          blocks |-> [k \in 1..Len(ExampleLevels) |->
                         [id |-> <<"b", k>>, content |-> BlockText(k),
                          level |-> levels[k], srsData |-> <<>>]]] >> :
        levels \in [1..Len(ExampleLevels) -> 0..MaxLevel] }

InitAncestors ==
    /\ documents \in OutlineDocs
    /\ InitApp

NextAncestors ==
    \/ StartStudy({"order"})
    \/ handleDisableCard
    \/ handlePrevCard
    \/ CloseSession

SpecAncestors == InitAncestors /\ [][NextAncestors]_vars

----------------------------------------------------------------------------
(* Classification on drawn records: the blocks of the first document have  *)
(* any of the records below; the threshold, the tab and the search term    *)
(* are set by the user.                                                    *)

MaxLapses == 2

ClassifyRecords ==
    { <<>> }
    \cup { <<[DefaultSrs EXCEPT !.lapses = l, !.repetitions = n]>> :
              l \in 1..MaxLapses, n \in 0..1 }
    \cup { <<[DefaultSrs EXCEPT !.repetitions = 1]>>,
           <<[DefaultSrs EXCEPT !.lapses = 1, !.disabled = TRUE]>> }

ClassifyDocs ==
    { [InitialDocs EXCEPT
          ![1].blocks = [k \in 1..Len(InitialDocs[1].blocks) |->
                            [InitialDocs[1].blocks[k] EXCEPT !.srsData = rs[k]]]] :
        rs \in [1..Len(InitialDocs[1].blocks) -> ClassifyRecords] }

LeechThresholds == 1..MaxLapses

\* An upper-case letter of the first card, and a text of the second card only
SearchTerms == { <<>>, <<"A">>, <<"c">> }

InitClassify ==
    /\ documents \in ClassifyDocs
    /\ InitApp

NextClassify ==
    \/ \E n \in LeechThresholds : UpdateLeechThreshold(n)
    \/ \E tab \in Tabs : SetActiveTab(tab)
    \/ \E term \in SearchTerms : SetSearchTerm(term)

SpecClassify == InitClassify /\ [][NextClassify]_vars

----------------------------------------------------------------------------
(* Ratings and disable toggles on the initial documents, with the card     *)
(* table's threshold set by the user.                                      *)

NextBuckets ==
    \/ StartStudy({"order"})
    \/ Reveal
    \/ Rate(MaxRatings)
    \/ \E k \in 1..Len(requeueTimers) : FireRequeue(k)
    \/ CloseSession
    \/ \E b \in {"b1", "b2"} : ToggleDisable(b)
    \/ \E n \in LeechThresholds : UpdateLeechThreshold(n)

SpecBuckets == Init /\ [][NextBuckets]_vars

----------------------------------------------------------------------------
(* One swipe (flashcards) session over all documents.                      *)

NextSwipe ==
    \/ StartStudy({"flashcards"})
    \/ TogglePlay
    \/ FlipByClick
    \/ FlipByKey
    \/ Decide(MaxDecisions)
    \/ AutoPlayFire(MaxDecisions)
    \/ \E k \in 1..Len(nextTimers) : FireNext(k)

SpecSwipe == Init /\ [][NextSwipe]_vars

----------------------------------------------------------------------------
(* One swipe session with its deck operations: filter, shuffle and the two *)
(* restarts of the end screen, over a deck of two cards.  The first block  *)
(* has a back in mixed case and was failed once in an earlier session, the *)
(* third is plain text.                                                    *)

DeckDocs ==
    [InitialDocs EXCEPT ![1].blocks[1].content = <<"x", ":", ":", "A", "b">>,
                        ![1].blocks[1].srsData =
                            <<RatedSrs(InitialDocs[1].blocks[1], "AGAIN")>>,
                        ![1].blocks[3].content = <<"e">>]

\* Texts typed into the filter box: nothing, a blank, a term in mixed case
\* that one card matches, a term no card matches.
FilterTerms == {<<>>, <<" ">>, <<"a", "B">>, <<"z">>}

InitDeck ==
    /\ documents = DeckDocs
    /\ InitApp

NextDeck ==
    \/ StartStudy({"flashcards"})
    \/ Decide(MaxDecisions)
    \/ \E k \in 1..Len(nextTimers) : FireNext(k)
    \/ \E term \in FilterTerms : SetFilterTerm(term)
    \/ Shuffle
    \/ handleRestartMissed
    \/ handleRestartAll

SpecDeck == InitDeck /\ [][NextDeck]_vars

----------------------------------------------------------------------------
(* One session, of a rating mode or of the swipe mode, over the deck of    *)
(* two cards, with every operation of its mode.                            *)

NextOperations ==
    \/ StartStudy({"order", "flashcards"})
    \/ Reveal
    \/ Rate(MaxRatings)
    \/ \E k \in 1..Len(requeueTimers) : FireRequeue(k)
    \/ StartEdit
    \/ SaveEdit
    \/ RestartSession
    \/ Decide(MaxSessionDecisions)
    \/ \E k \in 1..Len(nextTimers) : FireNext(k)
    \/ TogglePlay
    \/ AutoPlayFire(MaxSessionDecisions)
    \/ \E term \in FilterTerms : SetFilterTerm(term)
    \/ Shuffle
    \/ handleRestartMissed
    \/ handleRestartAll

SpecOperations == InitDeck /\ [][NextOperations]_vars

----------------------------------------------------------------------------
(* Auto-play left to itself: the card is not clicked and no button or      *)
(* arrow key decides; play/pause and the flip keys remain.  A timer that   *)
(* is armed fires eventually.                                              *)

\* Every decision is made by the chain here, so an auto-play timer (2 s or
\* 3 s) that is pending beside the timer of a decision (300 ms) was armed
\* after it and fires after it.  The chain decides each card once, which
\* bounds the decisions by the length of the queue.
AutoPlayFireInOrder ==
    /\ \A k \in 1..Len(nextTimers) : ~nextTimers[k].mounted
    /\ AutoPlayFire(Len(queue))

NextAutoPlay ==
    \/ StartStudy({"flashcards"})
    \/ TogglePlay
    \/ FlipByKey
    \/ AutoPlayFireInOrder
    \/ \E k \in 1..Len(nextTimers) : FireNext(k)

SpecAutoPlay ==
    /\ Init
    /\ [][NextAutoPlay]_vars
    /\ WF_vars(AutoPlayFireInOrder)
    /\ WF_vars(\E k \in 1..Len(nextTimers) : FireNext(k))

----------------------------------------------------------------------------
(* The shuffles: the one of a session start in the modes that shuffle and  *)
(* the one of the swipe toolbar, over the three cards of the documents.    *)

NextShuffle ==
    \/ StartStudy({"spaced", "flashcards"})
    \/ Shuffle
    \/ Decide(MaxSessionDecisions)
    \/ \E k \in 1..Len(nextTimers) : FireNext(k)
    \/ CloseSession

SpecShuffle == Init /\ [][NextShuffle]_vars

----------------------------------------------------------------------------
(* One session of a rating mode with every operation that moves the        *)
(* position or changes the queue, over the deck of two cards.  StudySession *)
(* tells 'order' from the other rating modes only (by the rating buttons   *)
(* it offers); 'all' differs from 'spaced' in the documents App scans at   *)
(* the start, which are the same cards here.                               *)

NextPosition ==
    \/ StartStudy({"spaced", "order"})
    \/ Reveal
    \/ Rate(MaxRatings)
    \/ \E k \in 1..Len(requeueTimers) : FireRequeue(k)
    \/ handlePrevCard
    \/ handleDisableCard
    \/ StartEdit
    \/ SaveEdit
    \/ RestartSession

SpecPosition == InitDeck /\ [][NextPosition]_vars

----------------------------------------------------------------------------
(* Sessions of a rating mode with edits and restarts, closed and started   *)
(* again, and disable toggles made in the editor between them.             *)

NextLapses ==
    \/ StartStudy({"spaced", "order"})
    \/ Reveal
    \/ Rate(MaxSessionRatings)
    \/ \E k \in 1..Len(requeueTimers) : FireRequeue(k)
    \/ StartEdit
    \/ SaveEdit
    \/ RestartSession
    \/ CloseSession
    \/ \E b \in {"b1", "b2"} : ToggleDisable(b)

SpecLapses == InitDeck /\ [][NextLapses]_vars

----------------------------------------------------------------------------
(* Sessions of the swipe mode with everything that changes isPlaying, the  *)
(* flipped state or the current card, and sessions of a rating mode        *)
(* between them, over the deck of two cards.                               *)

NextTimers ==
    \/ StartStudy({"order", "flashcards"})
    \/ Reveal
    \/ Rate(MaxSessionRatings)
    \/ TogglePlay
    \/ FlipByClick
    \/ FlipByKey
    \/ Decide(MaxSessionDecisions)
    \/ AutoPlayFire(MaxSessionDecisions)
    \/ \E k \in 1..Len(nextTimers) : FireNext(k)
    \/ \E term \in FilterTerms : SetFilterTerm(term)
    \/ Shuffle
    \/ handleRestartMissed
    \/ handleRestartAll
    \/ DisableCardKey
    \/ CloseSession

SpecTimers == InitDeck /\ [][NextTimers]_vars

----------------------------------------------------------------------------
(* Auto-play started on a session in which cards were marked and flipped   *)
(* by hand, and left to itself from then on: once auto-play is on, only    *)
(* timers act.  A timer that is armed fires eventually.                    *)

\* ArrowLeft / ArrowRight: ignored while a swipe is shown
ArrowDecide ==
    /\ ~isPlaying
    /\ swipeDirection = "none"
    /\ Decide(MaxDecisions)

\* A click on the card before auto-play is started
ManualFlip == ~isPlaying /\ FlipByClick

\* The play button
StartPlay == ~isPlaying /\ TogglePlay

NextRun ==
    \/ StartStudy({"flashcards"})
    \/ ArrowDecide
    \/ ManualFlip
    \/ StartPlay
    \/ AutoPlayFireInOrder
    \/ \E k \in 1..Len(nextTimers) : FireNext(k)

SpecRun ==
    /\ Init
    /\ [][NextRun]_vars
    /\ WF_vars(AutoPlayFireInOrder)
    /\ WF_vars(\E k \in 1..Len(nextTimers) : FireNext(k))

----------------------------------------------------------------------------
(* Properties of the requeue on a fail rating.                             *)

\* The block a card was derived from, and its live SRS record.
BlockOf(docs, card) ==
    LET d == CHOOSE i \in 1..Len(docs) : docs[i].id = card.docId
        b == CHOOSE j \in 1..Len(docs[d].blocks) : docs[d].blocks[j].id = card.blockId
    IN docs[d].blocks[b]

LiveSrs(docs, card) == SrsOf(BlockOf(docs, card))

\* The step in which the k-th pending timer of the mounted session fires.
Fires(k) ==
    /\ k \in 1..Len(requeueTimers)
    /\ requeueTimers[k].mounted
    /\ requeueTimers' = RemoveAt(requeueTimers, k)

\* The step in which the k-th pending timer fires after its session was closed.
FiresStale(k) ==
    /\ k \in 1..Len(requeueTimers)
    /\ ~requeueTimers[k].mounted
    /\ requeueTimers' = RemoveAt(requeueTimers, k)

\* C1: when a requeue timer fires, the copy goes right after the position the
\* session has at that moment (index q+1) when q is within the queue, and to
\* the end of the queue otherwise.
C1_RequeueAtLivePosition ==
    [][\A k \in 1..Len(requeueTimers) :
          Fires(k) =>
             LET q == currentIndex
                 c == requeueTimers[k].card
             IN queue' = IF q < Len(queue) THEN Splice(queue, q + 1, c)
                         ELSE Append(queue, c)]_vars

\* The first card was failed at position 0, the position then was 1, and the
\* copy stands at index 2 (after the card shown), not at index 1.
C1_Witness ==
    /\ RatingMode
    /\ Len(originalQueue) = 3
    /\ currentIndex = 1
    /\ requeueTimers = <<>>
    /\ queue = Splice(originalQueue, 2, At(originalQueue, 0))

\* The timer armed by a fail rating at position p fires while the position is
\* p+2 and the timer of a second fail rating, made at p+1, is still pending.
SecondFailBeforeFire(k, p) ==
    /\ Fires(k)
    /\ requeueTimers[k].sched = p
    /\ currentIndex = p + 2
    /\ Len(requeueTimers) > k
    /\ requeueTimers[k + 1].sched = p + 1

\* C2 as stated: the copy of the first failed card always lands at index p+3.
C2_AsStated ==
    [][\A k \in 1..Len(requeueTimers) : \A p \in 0..Len(queue) :
          SecondFailBeforeFire(k, p) =>
             /\ Len(queue') > p + 3
             /\ At(queue', p + 3) = requeueTimers[k].card]_vars

\* C2 amended: the copy lands at index p+3 when p+2 is within the queue at
\* fire time, and is appended (index p+2) when the session is complete; the
\* entry at index p+1 is never displaced.
C2_StaleIndexRegression ==
    [][\A k \in 1..Len(requeueTimers) : \A p \in 0..Len(queue) :
          SecondFailBeforeFire(k, p) =>
             /\ queue' = IF p + 2 < Len(queue)
                         THEN Splice(queue, p + 3, requeueTimers[k].card)
                         ELSE Append(queue, requeueTimers[k].card)
             /\ At(queue', p + 1) = At(queue, p + 1)]_vars

\* Cards 0 and 1 were failed, the first timer has fired at position 2 and its
\* copy stands at index 3; the second timer is still pending.
C2_Witness ==
    /\ RatingMode
    /\ Len(originalQueue) = 3
    /\ currentIndex = 2
    /\ Len(requeueTimers) = 1
    /\ requeueTimers[1].sched = 1
    /\ requeueTimers[1].card = At(originalQueue, 1)
    /\ queue = Splice(originalQueue, 3, At(originalQueue, 0))

\* The timer of a fail rating made at position p fires with the position
\* still p+1 and no other timer pending.
FiresUndisturbed(k, p) ==
    /\ Fires(k)
    /\ Len(requeueTimers) = 1
    /\ requeueTimers[k].sched = p
    /\ currentIndex = p + 1

FailStepAdvances ==
    \A r \in FailRatings : handleRate(r) => currentIndex' = currentIndex + 1

\* C3 as stated: position is p+1 right after the fail rating, and the copy
\* is at index p+1 after the timer fired.
C3_AsStated ==
    [][/\ FailStepAdvances
       /\ \A k \in 1..Len(requeueTimers) : \A p \in 0..Len(queue) :
             FiresUndisturbed(k, p) => At(queue', p + 1) = requeueTimers[k].card]_vars

\* C3 amended: position is p+1 right after the fail rating; when the timer
\* fires with the position still p+1, the copy is at index p+2 if p+1 is
\* within the queue and at index p+1 (the end) if the session is complete.
C3_FailThenRequeue ==
    [][/\ FailStepAdvances
       /\ \A k \in 1..Len(requeueTimers) : \A p \in 0..Len(queue) :
             FiresUndisturbed(k, p) =>
                /\ Len(queue') = Len(queue) + 1
                /\ IF p + 1 < Len(queue)
                   THEN /\ At(queue', p + 2) = requeueTimers[k].card
                        /\ At(queue', p + 1) = At(queue, p + 1)
                   ELSE At(queue', p + 1) = requeueTimers[k].card]_vars

\* The card at position 1 was failed, the position was still 2 when the
\* timer fired, and the copy stands at index 3 (not at index 2).
C3_Witness ==
    /\ RatingMode
    /\ Len(originalQueue) = 3
    /\ ratings = 1
    /\ currentIndex = 2
    /\ requeueTimers = <<>>
    /\ queue = Splice(originalQueue, 3, At(originalQueue, 1))

\* C4: a fail rating adds 1 to the lapses of the rated card's block, sets
\* its repetitions to 0, advances the position by 1 in the same step and
\* arms exactly one requeue of a copy of the rated card.
C4_FailRating ==
    [][\A r \in FailRatings :
          handleRate(r) =>
             /\ LiveSrs(documents', currentCard).lapses =
                   LiveSrs(documents, currentCard).lapses + 1
             /\ LiveSrs(documents', currentCard).repetitions = 0
             /\ currentIndex' = currentIndex + 1
             /\ queue' = queue
             /\ requeueTimers' = Append(requeueTimers, requeueTimers'[Len(requeueTimers')])
             /\ requeueTimers'[Len(requeueTimers')].card = currentCard]_vars

\* A card that had one repetition was failed: its block now has one lapse
\* and no repetitions, no other block was rated, and the requeue is pending.
C4_Witness ==
    /\ RatingMode
    /\ ratings = 2
    /\ Len(requeueTimers) = 1
    /\ currentIndex = requeueTimers[1].sched + 1
    /\ LiveSrs(documents, requeueTimers[1].card).lapses = 1
    /\ LiveSrs(documents, requeueTimers[1].card).repetitions = 0
    /\ \A i \in 1..Len(queue) :
          queue[i].blockId # requeueTimers[1].card.blockId =>
             LiveSrs(documents, queue[i]) = DefaultSrs
    /\ queue = originalQueue

\* C5: a non-fail rating adds 1 to the repetitions of the rated card's
\* block, leaves its lapses, advances the position by 1, arms no requeue
\* and leaves the queue as it is.
C5_PassRating ==
    [][\A r \in (StudyRatings \cup OrderRatings) \ FailRatings :
          handleRate(r) =>
             /\ LiveSrs(documents', currentCard).repetitions =
                   LiveSrs(documents, currentCard).repetitions + 1
             /\ LiveSrs(documents', currentCard).lapses =
                   LiveSrs(documents, currentCard).lapses
             /\ currentIndex' = currentIndex + 1
             /\ requeueTimers' = requeueTimers
             /\ queue' = queue]_vars

\* Two non-fail ratings were made: nothing is pending, the queue is as at
\* the start and the position has advanced.
C5_Witness ==
    /\ RatingMode
    /\ ratings = 2
    /\ requeueTimers = <<>>
    /\ queue = originalQueue
    /\ currentIndex = 2
    /\ \A i \in 0..1 : LiveSrs(documents, At(queue, i)).repetitions = 1
    /\ \A i \in 0..1 : LiveSrs(documents, At(queue, i)).lapses = 0

\* C6 as stated: restart puts the queue back to originalQueue and the
\* position to 0.
C6_RestartResetsQueue ==
    [][RestartSession => (queue' = originalQueue /\ currentIndex' = 0)]_vars

\* C7 as stated: a complete session becomes active again only by restart.
C7_AsStated ==
    [][(SessionComplete /\ SessionActive') =>
          (currentIndex' = 0 /\ queue' = queue)]_vars

\* C7 amended: a complete session becomes active again only by restart
\* (position 0, same queue), by a requeue timer firing (the copy is appended
\* and becomes the current card) or by previous-card navigation.
C7_CompleteToActive ==
    [][(SessionComplete /\ SessionActive') =>
          \/ (currentIndex' = 0 /\ queue' = queue)
          \/ \E k \in 1..Len(requeueTimers) :
                /\ Fires(k)
                /\ queue' = Append(queue, requeueTimers[k].card)
                /\ currentIndex' = currentIndex
                /\ At(queue', currentIndex') = requeueTimers[k].card
          \/ (currentIndex' = currentIndex - 1 /\ queue' = queue)]_vars

\* After one fail rating of the last card the session was complete; it is
\* active again with the copy at the end, without any restart.
C7_Witness ==
    /\ SessionActive
    /\ studyModeType # "flashcards"
    /\ ratings = 1
    /\ Len(originalQueue) = 3
    /\ currentIndex = 3
    /\ queue = Append(originalQueue, At(originalQueue, 2))

\* C8 as stated: a requeue armed before a restart inserts nothing after it.
C8_RestartCancelsRequeue ==
    [][\A k \in 1..Len(requeueTimers) :
          (Fires(k) /\ requeueTimers[k].preRestart) => queue' = queue]_vars

\* The step in which the k-th pending next-card timer fires after its
\* session was closed.
NextFiresStale(k) ==
    /\ k \in 1..Len(nextTimers)
    /\ ~nextTimers[k].mounted
    /\ nextTimers' = RemoveAt(nextTimers, k)

\* C9: a timer firing after its session was closed changes no session
\* state and no document, and no auto-play timer outlives its session.
C9_StaleTimerNoOp ==
    [][/\ \A k \in 1..Len(requeueTimers) :
             FiresStale(k) =>
                UNCHANGED <<documents, activeDocId, mode, studyModeType,
                            sessionVars, nextTimers>>
       /\ \A k \in 1..Len(nextTimers) :
             NextFiresStale(k) =>
                UNCHANGED <<documents, activeDocId, mode, studyModeType,
                            sessionVars, requeueTimers>>
       /\ mode' = "edit" => autoPlayTimer' = "none"]_vars

\* A requeue timer and a next-card timer have fired after their sessions
\* were closed, the second while another session was running.
C9_Witness ==
    /\ staleFired = 2
    /\ ratings = 1
    /\ decisions = 1
    /\ mode = "study"
    /\ requeueTimers = <<>>
    /\ nextTimers = <<>>

----------------------------------------------------------------------------
(* Properties of the card derivation at session start.                     *)

\* C10: no card in the queue of a session comes from a block that was
\* disabled when the cards were derived.
C10_NoDisabledInQueue ==
    mode = "study" =>
        \A i \in 1..Len(queue) : ~LiveSrs(documents, queue[i]).disabled

\* A session over all documents started with a subset of ids while block b1
\* was disabled: its queue holds one of the two enabled cards.
C10_Witness ==
    /\ mode = "study"
    /\ studyModeType = "all"
    /\ Len(queue) = 1
    /\ queue[1].blockId = "b3"
    /\ SrsOf(documents[1].blocks[1]).disabled
    /\ ~SrsOf(documents[1].blocks[2]).disabled

----------------------------------------------------------------------------
(* Properties of the card derivation on drawn contents (SpecExtract).      *)

\* The trimmed texts before the first delimiter and between the first and
\* the second one.
SidesOf(content, delim) ==
    LET parts == Split(content, delim)
    IN <<Trim(parts[1]), Trim(parts[2])>>

HasBothSides(content, delim) ==
    /\ Includes(content, delim)
    /\ SidesOf(content, delim)[1] # <<>>
    /\ SidesOf(content, delim)[2] # <<>>

\* The cards of the running session that come from a block.
QueueCardsOf(block) ==
    LET From(c) == c.blockId = block.id
    IN SelectSeq(queue, From)

\* The rows of the card table that come from a block.
TableRowsOf(block) ==
    LET From(r) == r.blockId = block.id
    IN SelectSeq(tableData, From)

BlocksShown == {ActiveDoc.blocks[i] : i \in 1..Len(ActiveDoc.blocks)}

\* The card table gives a block a::b the two rows (a, b) and (b, a), both
\* bidirectional, both with the lapses and repetitions of the block.
TableHasBidirectionalPair(block) ==
    LET rows == TableRowsOf(block)
        sides == SidesOf(block.content, DoubleColon)
    IN /\ Len(rows) = 2
       /\ rows[1].front = sides[1] /\ rows[1].back = sides[2]
       /\ rows[2].front = sides[2] /\ rows[2].back = sides[1]
       /\ \A k \in 1..2 :
             /\ rows[k].type = "bidirectional"
             /\ rows[k].lapses = SrsOf(block).lapses
             /\ rows[k].repetitions = SrsOf(block).repetitions

\* The session queue holds, for a block a::b, the two cards (a, b) and
\* (b, a), both bidirectional, both with the statistics of the block.
QueueHasBidirectionalPair(block) ==
    LET cards == QueueCardsOf(block)
        sides == SidesOf(block.content, DoubleColon)
    IN /\ Len(cards) = 2
       /\ \E k \in 1..2 : cards[k].front = sides[1] /\ cards[k].back = sides[2]
       /\ \E k \in 1..2 : cards[k].front = sides[2] /\ cards[k].back = sides[1]
       /\ \A k \in 1..2 :
             /\ cards[k].cardType = "bidirectional"
             /\ cards[k].lapses = SrsOf(block).lapses
             /\ cards[k].repetitions = SrsOf(block).repetitions

\* C11 as stated: a block a::b with non-empty trimmed a and b gives exactly
\* the two bidirectional cards (a, b) and (b, a) with the block's statistics,
\* in the card table and in the queue of a study session.
C11_BidirectionalPair ==
    \A block \in BlocksShown :
        HasBothSides(block.content, DoubleColon) =>
            /\ TableHasBidirectionalPair(block)
            /\ (mode = "study" /\ ~SrsOf(block).disabled) =>
                  QueueHasBidirectionalPair(block)

\* The card-table half of C11 alone.
C11_TablePair ==
    \A block \in BlocksShown :
        HasBothSides(block.content, DoubleColon) => TableHasBidirectionalPair(block)

\* The delimiter that governs a block ('::' before ';;') has an empty side.
HasEmptySide(content) ==
    IF Includes(content, DoubleColon) THEN ~HasBothSides(content, DoubleColon)
    ELSE Includes(content, DoubleSemi) /\ ~HasBothSides(content, DoubleSemi)

\* C12 as stated: a block whose delimiter has an empty side gives no row in
\* the card table and no card in the queue of a study session.
C12_NoCardOnEmptySide ==
    \A block \in BlocksShown :
        HasEmptySide(block.content) =>
            /\ TableRowsOf(block) = <<>>
            /\ mode = "study" => QueueCardsOf(block) = <<>>

\* The card-table half of C12 alone.
C12_TableNoRow ==
    \A block \in BlocksShown :
        HasEmptySide(block.content) => TableRowsOf(block) = <<>>

\* The card types the precedence rules give a content: the '::' rule first,
\* then ';;', then the cloze span; a rule that matches but has an empty side
\* gives nothing and no later rule is tried.
ExpectedTypes(content) ==
    IF Includes(content, DoubleColon)
    THEN IF HasBothSides(content, DoubleColon)
         THEN <<"bidirectional", "bidirectional">> ELSE <<>>
    ELSE IF Includes(content, DoubleSemi)
    THEN IF HasBothSides(content, DoubleSemi) THEN <<"forward">> ELSE <<>>
    ELSE IF ClozeTest(content) THEN <<"cloze">>
    ELSE <<>>

TableTypesOf(block) ==
    [k \in 1..Len(TableRowsOf(block)) |-> TableRowsOf(block)[k].type]

QueueTypesOf(block) ==
    [k \in 1..Len(QueueCardsOf(block)) |-> QueueCardsOf(block)[k].cardType]

\* C13 as stated: each block gives the cards of the first rule that matches
\* its content and of no other rule, in the card table and in the queue.
C13_FirstMatchWins ==
    \A block \in BlocksShown :
        /\ TableTypesOf(block) = ExpectedTypes(block.content)
        /\ (mode = "study" /\ ~SrsOf(block).disabled) =>
              QueueTypesOf(block) = ExpectedTypes(block.content)

\* The card-table half of C13 alone.
C13_TableFirstMatch ==
    \A block \in BlocksShown : TableTypesOf(block) = ExpectedTypes(block.content)

\* The order of the rules in the study derivation: a block gives at most
\* one card; with '::' its sides come from the '::' split, otherwise with
\* ';;' from the ';;' split, otherwise a cloze span gives one cloze card.
C13_StudyRuleOrder ==
    mode = "study" =>
        \A block \in BlocksShown :
            ~SrsOf(block).disabled =>
                LET cards == QueueCardsOf(block)
                    content == block.content
                IN IF Includes(content, DoubleColon)
                   THEN /\ Len(cards) = 1
                        /\ cards[1].cardType # "cloze"
                        /\ <<cards[1].front, cards[1].back>> = SidesOf(content, DoubleColon)
                   ELSE IF Includes(content, DoubleSemi)
                   THEN /\ Len(cards) = 1
                        /\ cards[1].cardType = "forward"
                        /\ <<cards[1].front, cards[1].back>> = SidesOf(content, DoubleSemi)
                   ELSE IF ClozeTest(content)
                   THEN Len(cards) = 1 /\ cards[1].cardType = "cloze"
                   ELSE cards = <<>>

\* The text of a content after its first '::'.
AfterFirst(content) ==
    SubSeq(content, FirstIndex(content, DoubleColon) + 2, Len(content))

\* C14: for content a::b::c every derived card has the trimmed a and the
\* trimmed b as its two sides (front a and back b in the study queue and in
\* the first table row); what follows the second '::' is in no card, and the
\* block gives no further card.
C14_SecondDelimiterCuts ==
    \A block \in BlocksShown :
        LET content == block.content
            a == Trim(SubSeq(content, 1, FirstIndex(content, DoubleColon) - 1))
            rest == AfterFirst(content)
            b == Trim(SubSeq(rest, 1, FirstIndex(rest, DoubleColon) - 1))
            rows == TableRowsOf(block)
            cards == QueueCardsOf(block)
        IN (Includes(content, DoubleColon) /\ Includes(rest, DoubleColon)) =>
              /\ Len(rows) <= 2
              /\ \A k \in 1..Len(rows) :
                    <<rows[k].front, rows[k].back>> \in {<<a, b>>, <<b, a>>}
              /\ Len(rows) >= 1 => <<rows[1].front, rows[1].back>> = <<a, b>>
              /\ (mode = "study" /\ ~SrsOf(block).disabled) =>
                    /\ Len(cards) = 1
                    /\ <<cards[1].front, cards[1].back>> = <<a, b>>

\* A session runs over the block a::b::c: its card has front a and back b,
\* and the table has the rows (a, b) and (b, a).
C14_Witness ==
    /\ mode = "study"
    /\ ActiveDoc.blocks[1].content = <<"a", ":", ":", "b", ":", ":", "c">>
    /\ \E k \in 1..Len(queue) :
          /\ queue[k].blockId = "b1"
          /\ queue[k].front = <<"a">>
          /\ queue[k].back = <<"b">>
    /\ Len(TableRowsOf(ActiveDoc.blocks[1])) = 2

----------------------------------------------------------------------------
(* Properties of the ancestors (SpecAncestors).                            *)

\* The parent of the block at index (0-based): the nearest preceding block
\* with a strictly smaller level, -1 when there is none.
ParentOf(blocks, index) ==
    LET smaller == {j \in 0..(index - 1) : At(blocks, j).level < At(blocks, index).level}
    IN IF smaller = {} THEN -1
       ELSE CHOOSE j \in smaller : \A h \in smaller : h <= j

\* The contents of the parent, the parent's parent, ..., root first.
RECURSIVE ParentChain(_, _)
ParentChain(blocks, index) ==
    IF ParentOf(blocks, index) = -1 THEN <<>>
    ELSE ParentChain(blocks, ParentOf(blocks, index))
            \o <<At(blocks, ParentOf(blocks, index)).content>>

LevelsOf(blocks) == [k \in 1..Len(blocks) |-> blocks[k].level]

\* The index (0-based) of the block a table row or a card comes from.
IndexOfBlock(blocks, blockId) ==
    (CHOOSE k \in 1..Len(blocks) : blocks[k].id = blockId) - 1

\* C15: the ancestors of every table row, and the context path of the card
\* shown in a session (after the document title, texts trimmed), are the
\* chain of parents of the block, root first; for the levels
\* [0,1,1,2,0,1] the block at index 2 has [text(0)] and the block at index
\* 3 has [text(0), text(2)].
C15_AncestorsAreParentChain ==
    LET blocks == ActiveDoc.blocks
        rows == tableData
    IN /\ \A r \in 1..Len(rows) :
             rows[r].ancestors =
                ParentChain(blocks, IndexOfBlock(blocks, rows[r].blockId))
       /\ \A index \in 0..(Len(blocks) - 1) :
             ancestorsOf(blocks, index) = ParentChain(blocks, index)
       /\ ancestorsOf(blocks, 0) = <<>>
       /\ LevelsOf(blocks) = ExampleLevels =>
             /\ ancestorsOf(blocks, 2) = <<At(blocks, 0).content>>
             /\ ancestorsOf(blocks, 3) = <<At(blocks, 0).content, At(blocks, 2).content>>
       /\ (mode = "study" /\ HasCurrentCard) =>
             LET chain == ParentChain(blocks, IndexOfBlock(blocks, currentCard.blockId))
             IN getContextPath =
                   <<TitleOf(ActiveDoc)>> \o [k \in 1..Len(chain) |-> Trim(chain[k])]

\* A session shows the card of the block at index 3 of an outline whose
\* levels are [0,1,1,2,0,1]: its context path is the title and the trimmed
\* text(0) and text(2), and its table row has the untrimmed texts.  The block at index 1 (level 2 right after level 0 in another
\* outline) is covered by the levels drawn.
C15_Witness ==
    /\ mode = "study"
    /\ LevelsOf(ActiveDoc.blocks) = ExampleLevels
    /\ currentIndex = 3
    /\ getContextPath = << <<"d1">>, <<"0", " ", ";", ";", "x">>,
                            <<"2", " ", ";", ";", "x">> >>
    /\ tableData[4].ancestors = << <<" ", "0", " ", ";", ";", "x">>,
                                   <<" ", "2", " ", ";", ";", "x">> >>

----------------------------------------------------------------------------
(* Properties of the classification (SpecClassify).                        *)

\* The ids of the rows of data that a tab keeps.
Bucket(data, tab) ==
    LET rows == TabFiltered(data, tab)
    IN {rows[k].id : k \in 1..Len(rows)}

\* The ids of the enabled rows without lapses.
EnabledZeroLapses(data) ==
    {data[k].id : k \in {h \in 1..Len(data) : ~data[h].disabled /\ data[h].lapses = 0}}

\* C16: leech and struggling are disjoint; leech, struggling and the
\* enabled rows without lapses make up enabled; enabled and disabled are
\* disjoint and make up all; the tab counts add up accordingly.
C16_ClassifyPartition ==
    LET data == tableData
        n == counts
        leech == Bucket(data, "leech")
        struggling == Bucket(data, "struggling")
        enabled == Bucket(data, "enabled")
        disabled == Bucket(data, "disabled")
        zero == EnabledZeroLapses(data)
    IN /\ leech \cap struggling = {}
       /\ leech \cup struggling \cup zero = enabled
       /\ enabled \cap disabled = {}
       /\ enabled \cup disabled = Bucket(data, "all")
       /\ n["leech"] + n["struggling"] + Cardinality(zero) = n["enabled"]
       /\ n["enabled"] + n["disabled"] = n["all"]
       /\ n["leech"] = Cardinality(leech)
       /\ n["struggling"] = Cardinality(struggling)
       /\ n["enabled"] = Cardinality(enabled)
       /\ n["disabled"] = Cardinality(disabled)

\* With threshold 2 the table has a leech row, a struggling row and an
\* enabled row without lapses, and the leech tab is shown.
C16_Witness ==
    /\ leechThreshold = 2
    /\ activeTab = "leech"
    /\ searchTerm = <<>>
    /\ counts["leech"] >= 1
    /\ counts["struggling"] >= 1
    /\ EnabledZeroLapses(tableData) # {}
    /\ Len(filteredData) = counts["leech"]

\* The rows that contain the term in the front, the back or an ancestor,
\* whatever the case of the letters.
MatchingRows(data, term) ==
    LET Contains(text) ==
            \E k \in 1..(Len(text) - Len(term) + 1) :
                \A j \in 1..Len(term) :
                    LowerChar(text[k + j - 1]) = LowerChar(term[j])
        Matches(row) ==
            \/ Contains(row.front)
            \/ Contains(row.back)
            \/ \E a \in 1..Len(row.ancestors) : Contains(row.ancestors[a])
    IN SelectSeq(data, Matches)

\* C18 as stated: with a search term, every tab count is the number of rows
\* of the tab that match the term.
C18_CountsAfterTextFilter ==
    LET data == tableData
        matching == MatchingRows(data, searchTerm)
        n == counts
    IN searchTerm # <<>> =>
          \A tab \in Tabs : n[tab] = Len(TabFiltered(matching, tab))

\* The rows shown: the text filter is applied before the tab filter.
C18_RowsAfterTextFilter ==
    LET data == tableData
    IN searchTerm # <<>> =>
          filteredData = TabFiltered(MatchingRows(data, searchTerm), activeTab)

----------------------------------------------------------------------------
(* Properties of the buckets under ratings and toggles (SpecBuckets).      *)

\* The ids of the enabled rows that were never passed and have lapses.
EnabledFailedUnpassed(data) ==
    {data[k].id : k \in {h \in 1..Len(data) :
                            /\ ~data[h].disabled
                            /\ data[h].repetitions = 0
                            /\ data[h].lapses > 0}}

\* C17 as stated: leech, struggling and new are pairwise disjoint subsets
\* of enabled.
C17_PairwiseExclusive ==
    LET data == tableData
        leech == Bucket(data, "leech")
        struggling == Bucket(data, "struggling")
        new == Bucket(data, "new")
    IN /\ leech \cup struggling \cup new \subseteq Bucket(data, "enabled")
       /\ leech \cap struggling = {}
       /\ leech \cap new = {}
       /\ struggling \cap new = {}

\* C17 amended: leech, struggling and new are subsets of enabled, leech and
\* struggling are disjoint, and new shares with them exactly the enabled
\* rows that have lapses and no repetitions.
C17_LeechStrugglingExclusive ==
    LET data == tableData
        leech == Bucket(data, "leech")
        struggling == Bucket(data, "struggling")
        new == Bucket(data, "new")
    IN /\ leech \cup struggling \cup new \subseteq Bucket(data, "enabled")
       /\ leech \cap struggling = {}
       /\ new \cap (leech \cup struggling) = EnabledFailedUnpassed(data)

\* After two fail ratings and a toggle, with threshold 2: a leech row that
\* is also new, a struggling row or a disabled row beside it.
C17_Witness ==
    /\ ratings = 2
    /\ leechThreshold = 2
    /\ Bucket(tableData, "leech") \cap Bucket(tableData, "new") # {}
    /\ Bucket(tableData, "struggling") \cup Bucket(tableData, "disabled") # {}

----------------------------------------------------------------------------
(* Properties of the swipe session (SpecSwipe).                            *)

\* A step of handleCardAction, and a step in which its timer fires
DecideStep == decisions' = decisions + 1
NextFires == Len(nextTimers') < Len(nextTimers)

\* C19: decide(bad) adds the current card's id to missed, decide(good)
\* leaves missed unchanged, and every decide advances position by exactly 1
\* once its transition delay has elapsed.
C19_DecideAdvancesByOne ==
    [][/\ DecideStep /\ swipeDirection' = "left"
            => missedCards' = Append(missedCards, currentCard.id)
       /\ DecideStep /\ swipeDirection' = "right"
            => missedCards' = missedCards
       /\ DecideStep => currentIndex' = currentIndex
       /\ NextFires => currentIndex' = currentIndex + 1]_vars

\* C19, the part about missed: bad appends the current card's id, good
\* leaves missed as it was, and the position waits for the timer.
C19_MissedUpdate ==
    [][/\ DecideStep /\ swipeDirection' = "left"
            => missedCards' = Append(missedCards, currentCard.id)
       /\ DecideStep /\ swipeDirection' = "right"
            => missedCards' = missedCards
       /\ DecideStep => currentIndex' = currentIndex]_vars

\* C19, the part about position as the code has it: a timer that fires sets
\* the position to one past the position its decide was made at, so decides
\* made on the same card advance the position once.
C19_TimerSetsCapturedIndex ==
    [][NextFires => /\ currentIndex' \in {currentIndex, currentIndex + 1}
                    /\ \E k \in 1..Len(nextTimers) :
                          currentIndex' = nextTimers[k].target]_vars

\* Two decides were made on the first card and both timers have fired
C19_TwoDecidesOneAdvance ==
    /\ SwipeMode
    /\ decisions = 2
    /\ nextTimers = <<>>
    /\ currentIndex = 1

\* C20: each card id occurs in missed at most once, so the size of missed
\* is the number of distinct cards marked bad.
C20_MissedIsSet ==
    /\ \A i, j \in 1..Len(missedCards) :
          i # j => missedCards[i] # missedCards[j]
    /\ Len(missedCards) = Cardinality(Range(missedCards))

\* The first card was marked bad twice before its timer fired
C20_MarkedBadTwice ==
    /\ SwipeMode
    /\ currentIndex = 0
    /\ Len(nextTimers) = 2
    /\ Len(missedCards) = 2
    /\ missedCards[1] = missedCards[2]

----------------------------------------------------------------------------
(* Properties of the deck operations of the swipe session (SpecDeck).      *)

\* The cards of orig whose id is in ids, in the order they have in orig:
\* the k-th card is the one at the k-th smallest kept position.
KeptPositions(orig, ids) == {i \in 1..Len(orig) : orig[i].id \in ids}

InOriginalOrder(orig, ids) ==
    LET kept == KeptPositions(orig, ids)
    IN [k \in 1..Cardinality(kept) |->
           orig[CHOOSE i \in kept : Cardinality({j \in kept : j <= i}) = k]]

\* C21: restartMissed yields exactly the cards of originalQueue whose ids
\* are in missed, in their original relative order, whatever shuffle or
\* filter came before; it empties missed and sets position to 0.
C21_RestartMissed ==
    [][handleRestartMissed =>
          /\ queue' = InOriginalOrder(originalQueue, Range(missedCards))
          /\ missedCards' = <<>>
          /\ currentIndex' = 0
          /\ originalQueue' = originalQueue]_vars

\* A card was marked bad, the filter "aB" left one card which was marked bad
\* too, and restartMissed made a queue of the two while the filter term is
\* still in the box.
C21_Witness ==
    /\ SwipeMode
    /\ decisions = 2
    /\ filterTerm = <<"a", "B">>
    /\ missedCards = <<>>
    /\ currentIndex = 0
    /\ Len(queue) = 2
    /\ queue = InOriginalOrder(originalQueue, {queue[1].id, queue[2].id})

\* C22: restartAll sets the queue to originalQueue (original order, full
\* length), empties missed and sets position to 0, whatever shuffles,
\* filters and decisions came before.
C22_RestartAll ==
    [][handleRestartAll =>
          /\ queue' = originalQueue
          /\ Len(queue') = Len(originalQueue)
          /\ missedCards' = <<>>
          /\ currentIndex' = 0
          /\ originalQueue' = originalQueue]_vars

\* The filter "aB" left one card, it was decided, and restartAll brought the
\* two cards back while the filter term is still in the box.
C22_Witness ==
    /\ SwipeMode
    /\ decisions >= 1
    /\ filterTerm = <<"a", "B">>
    /\ queueIsOriginal
    /\ queue = originalQueue
    /\ Len(queue) = 2
    /\ missedCards = <<>>
    /\ currentIndex = 0

\* How often a card occurs in a queue
Occurrences(q, c) == Cardinality({i \in 1..Len(q) : q[i] = c})

IsPermutation(p, q) ==
    /\ Len(p) = Len(q)
    /\ \A c \in Range(p) \cup Range(q) : Occurrences(p, c) = Occurrences(q, c)

\* A session start in a mode that shuffles
ShuffledStart == mode = "edit" /\ mode' = "study" /\ studyModeType' # "order"

\* C23: shuffle replaces the queue by a permutation of the current queue
\* whatever the draws are, resets position to 0 and leaves missed and
\* originalQueue unchanged; the shuffle of a session start in a non-order
\* mode gives a permutation of the derived cards.
C23_ShuffleIsPermutation ==
    [][/\ Shuffle => /\ IsPermutation(queue', queue)
                     /\ currentIndex' = 0
                     /\ missedCards' = missedCards
                     /\ originalQueue' = originalQueue
       /\ ShuffledStart =>
             /\ IsPermutation(queue', extractCards(DocsToStudy(studyModeType')))
             /\ originalQueue' = queue']_vars

\* A card was marked bad, the position moved to 1, and a shuffle put the
\* three cards in another order at position 0 with the card still in missed.
C23_Witness ==
    /\ SwipeMode
    /\ filterTerm = <<>>
    /\ ~queueIsOriginal
    /\ queue # originalQueue
    /\ IsPermutation(queue, originalQueue)
    /\ Len(queue) = 3
    /\ Len(missedCards) = 1
    /\ nextTimers = <<>>
    /\ currentIndex = 0

\* text contains term when letter case is ignored
ContainsIgnoringCase(text, term) ==
    \E k \in 0..(Len(text) - Len(term)) :
        \A i \in 1..Len(term) : LowerChar(text[k + i]) = LowerChar(term[i])

\* The ids of the cards whose front or back contains the term
MatchingIds(cards, term) ==
    {cards[i].id : i \in {n \in 1..Len(cards) :
        \/ ContainsIgnoringCase(cards[n].front, term)
        \/ ContainsIgnoringCase(cards[n].back, term)}}

\* C24: filter(term) with a non-empty term sets the queue to the cards of
\* originalQueue, in its order, whose front or back contains the term
\* case-insensitively, and resets position to 0; clearing the term restores
\* the full originalQueue in its original order.
C24_FilterNonEmptyTerm ==
    [][\A term \in FilterTerms :
          SetFilterTerm(term) =>
             IF term # <<>>
             THEN /\ queue' = InOriginalOrder(originalQueue,
                                              MatchingIds(originalQueue, term))
                  /\ currentIndex' = 0
             ELSE queue' = originalQueue]_vars

\* C24 amended: the term counts as cleared when it is empty after trimming.
\* A term that is not blank sets the queue to the matching cards of
\* originalQueue in its order and position to 0; an empty or blank term
\* restores the full originalQueue and leaves position where it was.
C24_FilterTrimmedTerm ==
    [][\A term \in FilterTerms :
          SetFilterTerm(term) =>
             IF Trim(term) # <<>>
             THEN /\ queue' = InOriginalOrder(originalQueue,
                                              MatchingIds(originalQueue, term))
                  /\ currentIndex' = 0
             ELSE /\ queue' = originalQueue
                  /\ currentIndex' = currentIndex]_vars

\* A card was decided, the position moved to 1, and the term "aB" left the
\* one card whose back is "Ab" at position 0.
C24_Witness ==
    /\ SwipeMode
    /\ filterTerm = <<"a", "B">>
    /\ decisions = 1
    /\ nextTimers = <<>>
    /\ Len(originalQueue) = 2
    /\ Len(queue) = 1
    /\ queue[1].back = <<"A", "b">>
    /\ ~queueIsOriginal
    /\ currentIndex = 0

----------------------------------------------------------------------------
(* Properties of auto-play (SpecSwipe).                                    *)

\* C26: a manual flip made while auto-play is active stops auto-play,
\* whichever input makes it (a click on the card, Space or Enter): after it
\* isPlaying is false and no auto-play timer is pending.
C26_ManualFlipStopsAutoPlay ==
    [][(isPlaying /\ (FlipByClick \/ FlipByKey)) =>
          (~isPlaying' /\ autoPlayTimer' = "none")]_vars

\* C26, the flip keys alone: Space or Enter stops auto-play.
C26_KeyFlipStopsAutoPlay ==
    [][(isPlaying /\ FlipByKey) =>
          (~isPlaying' /\ autoPlayTimer' = "none")]_vars

\* C26, the rest of the statement: while auto-play is off no auto-play timer
\* is pending.
C26_NoTimerWhileStopped == ~isPlaying => autoPlayTimer = "none"

\* Auto-play is on, the back is shown and the timer that will decide is
\* armed although no decision has been made: the card was flipped by hand
\* or by the first timer and auto-play goes on.
C26_PlayingAfterClick ==
    /\ SwipeMode
    /\ isPlaying
    /\ isFlipped
    /\ autoPlayTimer = "decide"

\* The steps of the chain: the timer of the front fires, the timer of the
\* back fires
FrontTimerFires == autoPlayTimer = "flip" /\ AutoPlayFireInOrder
BackTimerFires == autoPlayTimer = "decide" /\ AutoPlayFireInOrder

----------------------------------------------------------------------------
(* Properties of the SRS records under toggles and ratings.                *)

\* The block with the given id in a documents value (ids are unique)
BlockWithId(docs, blockId) ==
    LET d == CHOOSE i \in 1..Len(docs) :
                 \E j \in 1..Len(docs[i].blocks) : docs[i].blocks[j].id = blockId
        b == CHOOSE j \in 1..Len(docs[d].blocks) : docs[d].blocks[j].id = blockId
    IN docs[d].blocks[b]

AllBlockIds == {"b1", "b2", "b3", "b4"}

\* The scheduling fields of a record, without the disabled flag
Counters(srs) ==
    [lapses |-> srs.lapses, repetitions |-> srs.repetitions,
     interval |-> srs.interval, easeFactor |-> srs.easeFactor]

\* The record handleToggleDisable writes for a block that had none, after
\* the second toggle: {nextReview 0, interval 0, easeFactor 2.5,
\* repetitions 0, lapses 0, disabled false}
FreshRecord == [DefaultSrs EXCEPT !.disabled = FALSE]

TwiceToggled(block) ==
    ToggledSrs([block EXCEPT !.srsData = <<ToggledSrs(block)>>])

\* C27: toggling disabled twice on a block returns its disabled flag to the
\* prior value and leaves lapses, repetitions, interval and easeFactor as
\* they were (a block without a record ends with the default record); a
\* single toggle changes only the disabled flag of that one block.
C27_ToggleTwice ==
    /\ [](\A id \in AllBlockIds :
             LET block == BlockWithId(documents, id)
                 twice == TwiceToggled(block)
             IN /\ twice.disabled = SrsOf(block).disabled
                /\ Counters(twice) = Counters(SrsOf(block))
                /\ block.srsData = <<>> => twice = FreshRecord
                /\ block.srsData # <<>> => twice = block.srsData[1])
    /\ [][\A id \in {"b1", "b2"} :
             ToggleDisable(id) =>
                LET old == BlockWithId(documents, id)
                    new == BlockWithId(documents', id)
                IN /\ SrsOf(new).disabled = ~SrsOf(old).disabled
                   /\ Counters(SrsOf(new)) = Counters(SrsOf(old))
                   /\ SrsOf(new).nextReview = SrsOf(old).nextReview
                   /\ new.content = old.content /\ new.level = old.level
                   /\ \A other \in AllBlockIds \ {id} :
                         BlockWithId(documents', other) = BlockWithId(documents, other)]_vars

\* The first block has been failed twice and is disabled; the second block,
\* never rated, carries the default record after two toggles.
C27_Witness ==
    /\ mode = "edit"
    /\ SrsOf(BlockWithId(documents, "b1")).lapses = 2
    /\ SrsOf(BlockWithId(documents, "b1")).disabled
    /\ BlockWithId(documents, "b2").srsData = <<FreshRecord>>

\* The counters and the flag of every block's record
SrsFields(docs) ==
    [id \in AllBlockIds |->
        LET srs == SrsOf(BlockWithId(docs, id))
        IN [lapses |-> srs.lapses, repetitions |-> srs.repetitions,
            disabled |-> srs.disabled]]

\* C28: in swipe mode no operation changes an SRS record: from the start of
\* the session on, through every decide, shuffle, filter, restart and
\* auto-play step, each block's lapses, repetitions and disabled flag stay
\* what they were.
C28_SwipeKeepsRecords ==
    /\ [][SwipeMode' => SrsFields(documents') = SrsFields(documents)]_vars
    /\ [](SwipeMode => SrsFields(documents) = SrsFields(DeckDocs))

\* A swipe session over a block that was failed before: a card has been
\* marked bad, a filter is set and auto-play is on.
C28_Witness ==
    /\ SwipeMode
    /\ SrsFields(documents)["b1"].lapses = 1
    /\ decisions >= 1
    /\ Len(missedCards) = 1
    /\ filterTerm = <<"a", "B">>
    /\ ~queueIsOriginal
    /\ isPlaying

\* A step of handleRate
RateStep == ratings' = ratings + 1

\* C29: a rating changes only the lapses and repetitions counters of the
\* block named by the rated card's docId and blockId: the record's
\* interval, easeFactor, nextReview and disabled flag are unchanged, and so
\* are that block's content and level and every other block of every
\* document.
C29_RatingTouchesCounters ==
    [][RateStep =>
          LET card == currentCard
              old == BlockOf(documents, card)
              new == BlockOf(documents', card)
          IN /\ SrsOf(new).interval = SrsOf(old).interval
             /\ SrsOf(new).easeFactor = SrsOf(old).easeFactor
             /\ SrsOf(new).nextReview = SrsOf(old).nextReview
             /\ SrsOf(new).disabled = SrsOf(old).disabled
             /\ \/ SrsOf(new).lapses # SrsOf(old).lapses
                \/ SrsOf(new).repetitions # SrsOf(old).repetitions
             /\ new.id = old.id /\ new.content = old.content /\ new.level = old.level
             /\ \A id \in AllBlockIds \ {card.blockId} :
                   BlockWithId(documents', id) = BlockWithId(documents, id)
             /\ Len(documents') = Len(documents)
             /\ \A d \in 1..Len(documents) :
                   /\ documents'[d].id = documents[d].id
                   /\ Len(documents'[d].blocks) = Len(documents[d].blocks)]_vars

\* Two ratings have been made, the rated block has counted them, and another
\* block carries a record with the disabled flag set.
C29_Witness ==
    /\ mode = "study"
    /\ ratings = 2
    /\ \E id \in AllBlockIds :
          LET srs == SrsOf(BlockWithId(documents, id))
          IN srs.lapses + srs.repetitions >= 1 /\ srs.easeFactor = DefaultEase
    /\ \E id \in AllBlockIds : SrsOf(BlockWithId(documents, id)).disabled

----------------------------------------------------------------------------
(* Properties of the session's snapshot (SpecOperations).                  *)

\* C30: originalQueue is a snapshot taken at session start: it is the queue
\* the session starts with, and no operation of the session (rating,
\* requeue, shuffle, filter, card edit, restart, restartMissed, decide)
\* changes its length, its order or its cards.
C30_OriginalQueueFrozen ==
    [][/\ (mode = "edit" /\ mode' = "study") => originalQueue' = queue'
       /\ (mode = "study" /\ mode' = "study") =>
             /\ Len(originalQueue') = Len(originalQueue)
             /\ \A i \in 1..Len(originalQueue) :
                   originalQueue'[i] = originalQueue[i]]_vars

\* A rating session in which a failed card has been requeued and a card has
\* been edited: the queue is longer than the snapshot and holds a front the
\* snapshot does not have.
C30_Witness ==
    /\ RatingMode
    /\ Len(queue) = Len(originalQueue) + 1
    /\ \E i \in 1..Len(queue) : queue[i].front = <<"z">>
    /\ \A i \in 1..Len(originalQueue) : originalQueue[i].front # <<"z">>

\* A swipe session whose queue was filtered or rebuilt from the missed cards
\* and is shorter than the snapshot.
C30_SwipeQueueDiffers ==
    /\ SwipeMode
    /\ decisions >= 1
    /\ 0 < Len(queue) /\ Len(queue) < Len(originalQueue)


----------------------------------------------------------------------------
(* Properties of a session start over an empty card set.                   *)

\* The choices of ids a caller can make.
IdChoices == {<<>>} \cup {<<S>> : S \in SUBSET CandidateIds}

\* The step is a call of handleStartStudy whose derived card set is empty.
EmptyStart ==
    /\ mode = "edit"
    /\ studyModeType' \in Modes
    /\ Len(queue') = 0
    /\ \E ids \in IdChoices :
          /\ Len(SelectedCards(studyModeType', ids)) = 0
          /\ handleStartStudy(studyModeType', ids, <<>>)

\* C31 as stated: starting a session over an empty derived card set
\* modifies no document and leaves a session that is complete at once
\* (the end screen of StudySession is what is shown).
C31_EmptyStartIsComplete ==
    [][EmptyStart => (documents' = documents /\ SessionComplete')]_vars

\* C31: starting a session over an empty derived card set modifies no
\* document and starts no session: the application stays in the editor,
\* the session state is left as it was, and no end screen is shown.
C31_EmptyStartStaysInEditor ==
    [][EmptyStart => /\ documents' = documents
                     /\ mode' = "edit"
                     /\ UNCHANGED sessionVars
                     /\ ~SessionComplete']_vars

\* A start in mode 'flashcards' was made in the editor while every card
\* block of every document is disabled.
C31_Witness ==
    /\ mode = "edit"
    /\ studyModeType = "flashcards"
    /\ Len(extractCards(documents)) = 0


----------------------------------------------------------------------------
(* Properties of a session started from the card table.                    *)

\* The step is the "practice" button of the card table.
PracticeStep == mode = "edit" /\ handlePracticeFiltered

\* The study cards of the active document that a set of table rows stands
\* for: same block, same direction.
CardsOfRows(rows) ==
    LET SameCard(c, r) ==
            /\ c.blockId = r.blockId
            /\ c.front = r.front
        Shown(c) == \E i \in 1..Len(rows) : SameCard(c, rows[i])
    IN {c \in Range(extractCards(<<ActiveDoc>>)) : Shown(c)}

\* C32 as stated: a session started from the card table with the ids of
\* the rows shown has as its queue exactly the enabled cards of those rows,
\* so it is mounted and not empty whenever an enabled row is shown whose
\* card the study derivation has too.
C32_PracticeStartsSelected ==
    [][(PracticeStep /\ CardsOfRows(filteredData) # {})
          => /\ mode' = "study"
             /\ Range(queue') = CardsOfRows(filteredData)]_vars

\* C32, what the code does: while rows are shown, their ids select no study
\* card and no session is started.
C32_PracticeStartsNothing ==
    [][(PracticeStep /\ Len(filteredData) > 0) => mode' = "edit"]_vars

\* C32, what the code does: while no row is shown, every card of the
\* document is studied.
C32_PracticeOfNoRowsStartsAll ==
    [][(PracticeStep /\ Len(filteredData) = 0 /\ mode' = "study")
          => Range(queue') = Range(extractCards(<<ActiveDoc>>))]_vars


----------------------------------------------------------------------------
(* Properties of the position in the rating modes.                         *)

\* C33: in a session of a rating mode the position is at least 0 and at
\* most the length of the queue, whatever the order of ratings, previous-
\* card steps, disable-card steps, edits, restarts and timer firings.
C33_PositionInRange ==
    RatingMode => (0 <= currentIndex /\ currentIndex <= Len(queue))

\* The session is complete after a failed card was put back and a card
\* was edited, with the position on the end of the grown queue.
C33_Witness ==
    /\ RatingMode
    /\ currentIndex = Len(queue)
    /\ Len(queue) > Len(originalQueue)
    /\ \E i \in 1..Len(queue) : queue[i].front \in EditFronts


\* C34: when a requeue timer of the session fires, the position and the
\* entries at the indices up to the position are left as they were; the
\* copy goes to an index greater than the position while the session is
\* active, and to the position itself (the end of the queue) while the
\* session is complete.
C34_RequeueAheadOfPosition ==
    [][\A k \in 1..Len(requeueTimers) :
          Fires(k) =>
             LET p == currentIndex
                 c == requeueTimers[k].card
             IN /\ currentIndex' = p
                /\ Len(queue') = Len(queue) + 1
                /\ IF p < Len(queue)
                   THEN /\ \A i \in 0..p : At(queue', i) = At(queue, i)
                        /\ \E j \in (p + 1)..Len(queue) :
                              /\ At(queue', j) = c
                              /\ queue' = Splice(queue, j, c)
                   ELSE /\ p = Len(queue)
                        /\ SubSeq(queue', 1, p) = queue
                        /\ At(queue', p) = c]_vars

\* The second card was failed as the last one, the session was complete,
\* and the copy stands on the position.
C34_Witness ==
    /\ RatingMode
    /\ ratings = 2
    /\ requeueTimers = <<>>
    /\ currentIndex = 2
    /\ queue = Append(originalQueue, At(originalQueue, 1))
    /\ LiveSrs(documents, At(originalQueue, 1)).lapses
          = LiveSrs(DeckDocs, At(originalQueue, 1)).lapses + 1


----------------------------------------------------------------------------
(* Properties of the queue length in the rating modes.                     *)

\* The sum of the lapses counters of all blocks.
TotalLapses(docs) ==
    LET L(id) == SrsOf(BlockWithId(docs, id)).lapses
    IN L("b1") + L("b2") + L("b3") + L("b4")

\* A step of handleRate with a fail rating, and with another rating.
FailRateStep == \E r \in FailRatings : handleRate(r)
PassRateStep == \E r \in (StudyRatings \cup OrderRatings) \ FailRatings : handleRate(r)

\* The step in which some pending timer of the mounted session fires.
SomeTimerFires == \E k \in 1..Len(requeueTimers) : Fires(k)

\* C35: in a session of a rating mode the queue is as long as at the start
\* plus one entry per timer that has fired, and the timers fired and
\* pending are as many as the fail ratings made.  Step by step: a fail
\* rating adds one pending timer, a firing turns one pending timer into
\* one more entry, and no other step changes either number.
C35_LengthCountsFirings ==
    /\ [](RatingMode =>
             Len(queue) - Len(originalQueue)
                = (TotalLapses(documents) - TotalLapses(DeckDocs)) - Len(requeueTimers))
    /\ [][(RatingMode /\ RatingMode') =>
             IF FailRateStep
             THEN /\ Len(requeueTimers') = Len(requeueTimers) + 1
                  /\ Len(queue') = Len(queue)
             ELSE IF SomeTimerFires
             THEN /\ Len(requeueTimers') = Len(requeueTimers) - 1
                  /\ Len(queue') = Len(queue) + 1
             ELSE /\ Len(requeueTimers') = Len(requeueTimers)
                  /\ Len(queue') = Len(queue)]_vars

\* Two fail ratings were made: the timer of the first has fired, the timer
\* of the second is pending, and a card of the queue was edited.
C35_Witness ==
    /\ RatingMode
    /\ ratings = 2
    /\ TotalLapses(documents) = TotalLapses(DeckDocs) + 2
    /\ Len(requeueTimers) = 1
    /\ Len(queue) = Len(originalQueue) + 1
    /\ \E i \in 1..Len(queue) : queue[i].front \in EditFronts


----------------------------------------------------------------------------
(* Properties of the SRS counters under repeated ratings.                  *)

\* The number of entries of a sequence of cards derived from a block, and
\* the number of pending timers holding such a card.
CopiesOf(cards, blockId) ==
    Cardinality({i \in 1..Len(cards) : cards[i].blockId = blockId})

PendingOf(blockId) ==
    Cardinality({k \in 1..Len(requeueTimers) :
                    requeueTimers[k].card.blockId = blockId})

\* C36: a rating is applied to the record the block has at that moment, not
\* to the counters the queued card carries from the start of the session.
\* Each block's lapses have risen by the number of fail ratings of its
\* cards (one per copy put back or about to be put back), and a rating
\* sets the repetitions to 0 when it is a fail rating and to the block's
\* repetitions plus 1 otherwise.
C36_RatingsUseLiveRecord ==
    /\ [](RatingMode =>
             \A b \in AllBlockIds :
                SrsOf(BlockWithId(documents, b)).lapses
                   - SrsOf(BlockWithId(DeckDocs, b)).lapses
                = CopiesOf(queue, b) - CopiesOf(originalQueue, b) + PendingOf(b))
    /\ [][RateStep =>
             LET old == LiveSrs(documents, currentCard)
                 new == LiveSrs(documents', currentCard)
             IN IF Len(requeueTimers') > Len(requeueTimers)
                THEN new.lapses = old.lapses + 1 /\ new.repetitions = 0
                ELSE new.lapses = old.lapses /\ new.repetitions = old.repetitions + 1]_vars

\* A copy of a card was rated after the card itself: the block's record
\* is two ratings ahead of the counters the queued card carries.
C36_Witness ==
    /\ RatingMode
    /\ ratings = 2
    /\ \E i \in 1..Len(queue) :
          \/ LiveSrs(documents, queue[i]).lapses = queue[i].lapses + 2
          \/ /\ LiveSrs(documents, queue[i]).lapses = queue[i].lapses + 1
             /\ LiveSrs(documents, queue[i]).repetitions = 1


\* The lapses counter of each block.
LapsesOf(docs) ==
    [b \in AllBlockIds |-> SrsOf(BlockWithId(docs, b)).lapses]

\* C37: no step lowers the lapses counter of a block, and the only step
\* that raises one is a fail rating, which raises the counter of the rated
\* card's block by 1 and no other.
C37_LapsesNeverFall ==
    [][documents' # documents =>
          LET old == LapsesOf(documents)
              new == LapsesOf(documents')
          IN \A b \in AllBlockIds :
                /\ new[b] >= old[b]
                /\ new[b] # old[b] =>
                      /\ new[b] = old[b] + 1
                      /\ FailRateStep
                      /\ currentCard.blockId = b]_vars

\* The first block was failed once more, its card was edited, and it was
\* then disabled in the editor.
C37_Witness ==
    /\ mode = "edit"
    /\ LapsesOf(documents)["b1"] = LapsesOf(DeckDocs)["b1"] + 1
    /\ SrsOf(BlockWithId(documents, "b1")).disabled
    /\ BlockWithId(documents, "b1").content # BlockWithId(DeckDocs, "b1").content


----------------------------------------------------------------------------
(* Properties of the auto-play timer.                                      *)

----------------------------------------------------------------------------
(* Properties of the position in swipe mode under resets.                  *)

\* C39 as stated: the timer of an earlier decide does not override a later
\* reset.  The position never exceeds the length of the current queue, and
\* from position 0 the firing of a timer leaves the position or moves it
\* to 1 (the advance of a decide made at position 0), never further.
C39_ResetNotOverridden ==
    /\ [](SwipeMode => currentIndex <= Len(queue))
    /\ [][(SwipeMode /\ NextFires /\ currentIndex = 0)
             => currentIndex' \in {0, 1}]_vars

\* C39, what the code does: the position is past the end of a queue that a
\* filter has shortened after the decide.
C39_PositionPastQueue ==
    /\ SwipeMode
    /\ filterTerm = <<"a", "B">>
    /\ Len(queue) = 1
    /\ currentIndex = 2

\* C39, what the code does: a timer of the mounted session that fires sets
\* the position to one past the position its decide was made at, whatever
\* has reset the position since.
C39_TimerSetsItsTarget ==
    [][\A k \in 1..Len(nextTimers) :
          (SwipeMode /\ nextTimers[k].mounted
             /\ nextTimers' = RemoveAt(nextTimers, k)
             /\ \A j \in 1..Len(nextTimers) : j # k => nextTimers[j] # nextTimers[k])
          => currentIndex' = nextTimers[k].target]_vars


----------------------------------------------------------------------------
(* Properties of auto-play left to itself.                                 *)

\* The timers of decisions that are pending in the mounted session.
PendingDecisions ==
    Cardinality({k \in 1..Len(nextTimers) : nextTimers[k].mounted})

\* The session is complete and no timer is left.
RunComplete ==
    /\ SessionComplete
    /\ PendingDecisions = 0
    /\ autoPlayTimer = "none"

\* C40: once auto-play is on and the session is left to its timers, the
\* session becomes complete.  On the way each card is decided once (the
\* decisions made are the cards passed plus the decision whose move is
\* pending), the chain decides a card only while its back is shown, each
\* card arrived at shows its front, the position moves by one card at a
\* time, and missed stays as it was when auto-play was started.
C40_AutoPlayCompletes ==
    /\ (SwipeMode /\ isPlaying) ~> (SwipeMode /\ isPlaying /\ RunComplete)
    /\ [](SwipeMode => decisions = currentIndex + PendingDecisions)
    /\ [][(SwipeMode /\ isPlaying) =>
             /\ isPlaying'
             /\ missedCards' = missedCards
             /\ queue' = queue
             /\ currentIndex' \in {currentIndex, currentIndex + 1}
             /\ currentIndex' # currentIndex => ~isFlipped'
             /\ DecideStep => (isFlipped /\ swipeDirection' = "right")]_vars

\* Auto-play has run to the end of a session in which a card was marked
\* bad by hand before it was started.
C40_Witness ==
    /\ SwipeMode
    /\ isPlaying
    /\ RunComplete
    /\ Len(missedCards) = 1
    /\ decisions = Len(queue)

====
